---- MODULE Spec2Model ----
(***************************************************************************)
(* Context-assembly layer of the Overleaf copilot: the CursorCache with    *)
(* its FileWatcher (src/utils/cursorCache.ts), the CursorSemanticIndex     *)
(* (semanticEmbeddings.ts), the SemanticContextManager (improvement.ts)    *)
(* and the CursorContextRetriever (contextRetriever.ts).                   *)
(*                                                                         *)
(* The program is single-threaded and cooperative: a step of the model is  *)
(* the code that runs between two suspension points (await).               *)
(***************************************************************************)
EXTENDS Integers, Sequences, FiniteSets, TLC

(***************************************************************************)
(* Strings.  A string is a sequence of lines (what split('\n') returns),   *)
(* a line is a sequence of words separated by single blanks, a word is     *)
(* one of the tokens below.  The empty string is one empty line.           *)
(***************************************************************************)
Files == {"a.tex", "b.tex"}

Words == {"a", "b", "\\section{S}", "\\begin{equation}", "\\end{equation}", "main.tex"}

EmptyString == << <<>> >>

\* The characters (UTF-16 code units) of each word.
CodeOf(w) ==
  CASE w = "a" -> <<97>>
    [] w = "b" -> <<98>>
    [] w = "\\section{S}" -> <<92, 115, 101, 99, 116, 105, 111, 110, 123, 83, 125>>
    [] w = "\\begin{equation}" ->
         <<92, 98, 101, 103, 105, 110, 123, 101, 113, 117, 97, 116, 105, 111, 110, 125>>
    [] w = "\\end{equation}" ->
         <<92, 101, 110, 100, 123, 101, 113, 117, 97, 116, 105, 111, 110, 125>>
    [] w = "main.tex" -> <<109, 97, 105, 110, 46, 116, 101, 120>>

RECURSIVE LineChars(_)
LineChars(line) ==
  IF line = <<>> THEN <<>>
  ELSE IF Len(line) = 1 THEN CodeOf(line[1])
  ELSE CodeOf(line[1]) \o <<32>> \o LineChars(Tail(line))

\* The characters of a string: its lines joined by '\n'.
RECURSIVE Chars(_)
Chars(text) ==
  IF Len(text) = 1 THEN LineChars(text[1])
  ELSE LineChars(text[1]) \o <<10>> \o Chars(Tail(text))

RECURSIVE Flatten(_)
Flatten(text) ==
  IF text = <<>> THEN <<>> ELSE text[1] \o Flatten(Tail(text))

\* toLowerCase() of a word and of a list of words.
ToLower(w) == IF w = "\\section{S}" THEN "\\section{s}" ELSE w

LowerWords(words) == [i \in 1..Len(words) |-> ToLower(words[i])]

\* str.split(/\s+/): the words, with an empty first (last) element when the
\* string starts (ends) with white space, and [''] for the empty string.
SplitWords(text) ==
  IF Len(text) = 1
  THEN (IF text[1] = <<>> THEN <<"">> ELSE text[1])
  ELSE (IF text[1] = <<>> THEN <<"">> ELSE <<>>)
       \o Flatten(text)
       \o (IF text[Len(text)] = <<>> THEN <<"">> ELSE <<>>)

\* Which words of the alphabet start with / contain which of the literals
\* the source tests for.
StartsWithFacts ==
  { <<"\\section{S}", "\\section{">>,
    <<"\\begin{equation}", "\\begin{">>,
    <<"\\end{equation}", "\\end{">> }

IncludesFacts ==
  StartsWithFacts \cup
  { <<"\\begin{equation}", "\\begin{equation}">> }

StartsWith(line, prefix) ==
  line # <<>> /\ <<line[1], prefix>> \in StartsWithFacts

Includes(line, literal) ==
  \E i \in 1..Len(line) : <<line[i], literal>> \in IncludesFacts

\* query.content.slice(-300)
SliceWindow == 300

RECURSIVE DropToFit(_, _)
DropToFit(text, n) ==
  IF Len(Chars(text)) <= n THEN text
  ELSE IF Len(text) > 1 THEN DropToFit(Tail(text), n)
  ELSE IF text[1] = <<>> THEN text
  ELSE DropToFit(<<Tail(text[1])>>, n)

\* slice(-n) keeps the last n characters; every string of the model is
\* shorter than the window, so the first branch is the one taken.
SliceLast(text, n) == DropToFit(text, n)

(***************************************************************************)
(* CursorCache.hashString: hash = ((hash << 5) - hash) + char, cut to a    *)
(* 32-bit signed integer after every character.  The 32-bit value is kept  *)
(* as two 16-bit halves so that no intermediate value leaves TLC's range.  *)
(***************************************************************************)
HashStep(h, c) ==
  LET lo == 31 * h[2] + c
      hi == 31 * h[1] + (lo \div 65536)
  IN  <<hi % 65536, lo % 65536>>

RECURSIVE HashFold(_, _)
HashFold(h, cs) ==
  IF cs = <<>> THEN h ELSE HashFold(HashStep(h, cs[1]), Tail(cs))

hashString(text) ==
  LET h == HashFold(<<0, 0>>, Chars(text))
  IN  IF h[1] >= 32768 THEN (h[1] - 65536) * 65536 + h[2]
      ELSE h[1] * 65536 + h[2]

(***************************************************************************)
(* Insertion-ordered maps (JavaScript Map) are sequences of entries with   *)
(* an id field: set() on a present key replaces the value in place, on an  *)
(* absent key appends; delete() removes the entry.                         *)
(***************************************************************************)
MapHas(m, id) == \E i \in 1..Len(m) : m[i].id = id

MapGet(m, id) == m[CHOOSE i \in 1..Len(m) : m[i].id = id]

MapSet(m, e) ==
  IF MapHas(m, e.id)
  THEN [i \in 1..Len(m) |-> IF m[i].id = e.id THEN e ELSE m[i]]
  ELSE Append(m, e)

MapDelete(m, id) == SelectSeq(m, LAMBDA e : e.id # id)

RECURSIVE MapDeleteAll(_, _)
MapDeleteAll(m, ids) ==
  IF ids = <<>> THEN m ELSE MapDeleteAll(MapDelete(m, ids[1]), Tail(ids))

Range(s) == {s[i] : i \in 1..Len(s)}

(***************************************************************************)
(* Scores.  A similarity or relevance score n / sqrt(d2) with n >= 0 and   *)
(* d2 > 0 is kept as the pair [n, d2], so that comparisons are exact.      *)
(***************************************************************************)
Score(n, d2) == [n |-> n, d2 |-> d2]

ScoreZero == Score(0, 1)

ScoreGreater(a, b) == a.n * a.n * b.d2 > b.n * b.n * a.d2

\* score > 0.1
AboveThreshold(a) == 100 * a.n * a.n > a.d2

\* Array.prototype.sort((a, b) => b.score - a.score): stable, descending.
RECURSIVE InsertByScore(_, _)
InsertByScore(sorted, x) ==
  IF sorted = <<>> THEN <<x>>
  ELSE IF ScoreGreater(x.score, sorted[1].score) THEN <<x>> \o sorted
  ELSE <<sorted[1]>> \o InsertByScore(Tail(sorted), x)

RECURSIVE SortByScoreFrom(_, _)
SortByScoreFrom(sorted, rest) ==
  IF rest = <<>> THEN sorted
  ELSE SortByScoreFrom(InsertByScore(sorted, rest[1]), Tail(rest))

SortByScore(items) == SortByScoreFrom(<<>>, items)

\* Array.prototype.slice(0, n)
Take(s, n) == IF n <= 0 THEN <<>> ELSE SubSeq(s, 1, IF n < Len(s) THEN n ELSE Len(s))

(***************************************************************************)
(* CursorSemanticIndex (semanticEmbeddings.ts): chunking.                  *)
(***************************************************************************)
BoundaryPrefixes ==
  { "\\section{", "\\chapter{", "\\subsection{", "\\begin{", "\\end{",
    "\\documentclass", "\\usepackage", "\\newtheorem", "\\theorem", "\\proof",
    "\\equation" }

isChunkBoundary(line) == \E p \in BoundaryPrefixes : StartsWith(line, p)

detectChunkType(line) ==
  IF Includes(line, "\\documentclass") \/ Includes(line, "\\usepackage") THEN "import"
  ELSE IF Includes(line, "\\begin{theorem}") \/ Includes(line, "\\newtheorem") THEN "theorem"
  ELSE IF Includes(line, "\\begin{proof}") THEN "proof"
  ELSE IF Includes(line, "\\begin{equation}") \/ Includes(line, "\\equation") THEN "equation"
  ELSE IF Includes(line, "\\section{") \/ Includes(line, "\\chapter{") THEN "section"
  ELSE IF Includes(line, "\\begin{definition}") THEN "definition"
  ELSE "section"

\* new Float32Array(): the embedding of a chunk that has none yet.
NoEmbedding == <<>>

\* The id is the string `${file}:${startLine}-${endLine}`.
createChunk(content, file, startLine, endLine, type) ==
  [ id        |-> <<file, startLine, endLine>>,
    content   |-> content,
    file      |-> file,
    startLine |-> startLine,
    endLine   |-> endLine,
    type      |-> type,
    embedding |-> NoEmbedding ]

\* The loop of chunkFile from line i (1-based here, i - 1 in the source).
RECURSIVE chunkLoop(_, _, _, _, _, _, _)
chunkLoop(lines, filePath, i, chunks, currentChunk, startLine, chunkType) ==
  IF i > Len(lines)
  THEN IF currentChunk # <<>>
       THEN Append(chunks,
                   createChunk(currentChunk, filePath, startLine, Len(lines), chunkType))
       ELSE chunks
  ELSE IF isChunkBoundary(lines[i])
       THEN chunkLoop(lines, filePath, i + 1,
                      IF currentChunk # <<>>
                      THEN Append(chunks,
                                  createChunk(currentChunk, filePath, startLine, i - 1,
                                              chunkType))
                      ELSE chunks,
                      <<lines[i]>>, i - 1, detectChunkType(lines[i]))
       ELSE chunkLoop(lines, filePath, i + 1, chunks,
                      Append(currentChunk, lines[i]), startLine, chunkType)

chunkFile(content, filePath) ==
  chunkLoop(content, filePath, 1, <<>>, <<>>, 0, "section")

(***************************************************************************)
(* CursorSemanticIndex: ranking.                                           *)
(***************************************************************************)
Dot(v1, v2) ==
  LET RECURSIVE Sum(_)
      Sum(i) == IF i = 0 THEN 0 ELSE v1[i] * v2[i] + Sum(i - 1)
  IN  Sum(Len(v1))

\* CursorSemanticIndex.cosineSimilarity; the vectors of the model have no
\* negative component.
cosineSimilarity(vec1, vec2) ==
  IF Len(vec1) # Len(vec2) THEN ScoreZero
  ELSE LET dotProduct == Dot(vec1, vec2)
           norm1 == Dot(vec1, vec1)
           norm2 == Dot(vec2, vec2)
       IN  IF norm1 * norm2 = 0 THEN ScoreZero
           ELSE Score(dotProduct, norm1 * norm2)

\* The dense branch of findRelevantContext, after the query embedding arrived.
denseRanking(embeddings_, chunkIndex_, queryEmbedding, limit) ==
  LET similarities ==
        [i \in 1..Len(embeddings_) |->
           [id |-> embeddings_[i].id,
            score |-> cosineSimilarity(queryEmbedding, embeddings_[i].embedding)]]
      top == Take(SortByScore(similarities), limit)
      kept == SelectSeq(top, LAMBDA s : MapHas(chunkIndex_, s.id))
  IN  [i \in 1..Len(kept) |-> MapGet(chunkIndex_, kept[i].id)]

CountCommon(queryWords, chunkWords) ==
  Cardinality({i \in 1..Len(queryWords) : queryWords[i] \in Range(chunkWords)})

Max(a, b) == IF a > b THEN a ELSE b

lexicalScore(query, chunk) ==
  LET queryWords == LowerWords(SplitWords(query))
      chunkWords == LowerWords(SplitWords(chunk.content))
      m == Max(Len(queryWords), 1)
  IN  Score(CountCommon(queryWords, chunkWords), m * m)

findRelevantContextFallback(chunkIndex_, query, limit) ==
  LET scored == [i \in 1..Len(chunkIndex_) |->
                   [chunk |-> chunkIndex_[i], score |-> lexicalScore(query, chunkIndex_[i])]]
      scoredChunks == SelectSeq(scored, LAMBDA s : AboveThreshold(s.score))
      top == Take(SortByScore(scoredChunks), limit)
  IN  [i \in 1..Len(top) |-> top[i].chunk]

(***************************************************************************)
(* State of the CursorSemanticIndex singleton `semanticIndex`.             *)
(***************************************************************************)
VARIABLES
  embeddings,   \* Map chunk id -> embedding, as a sequence of [id, embedding]
  chunkIndex,   \* Map chunk id -> chunk, as a sequence of chunks
  fileChunks,   \* Map file -> chunk ids; <<>> when the file has no entry
  apiKey,       \* TRUE when a non-empty API key is set
  indexCalls,   \* indexFile calls suspended at `await createEmbedding`
  findCalls,    \* findRelevantContext calls suspended at `await createEmbedding`
  lastFind,     \* what the findRelevantContext call that returned in this step read
                \* and returned; NoFind after any other step
  indexings,    \* number of indexFile calls made so far
  lastDone      \* per file, the chunks cut by the indexFile call of a client of
                \* the index that completed last, those of them whose embedding
                \* request failed, and whether that call overlapped another one
                \* of the file

indexVars == <<embeddings, chunkIndex, fileChunks, apiKey, indexCalls, findCalls, lastFind,
               indexings, lastDone>>

\* Bounds of the index model.
MaxIndexCalls == 2
MaxFindCalls == 1
MaxIndexings == 2

FileTexts ==
  { << <<"a">> >>,
    << <<"a">>, <<"\\section{S}", "b">> >> }

QueryTexts == { << <<"b">> >>, << <<"a", "b">> >> }

\* Values the embedding backend may answer with.
EmbeddingValues == { <<1, 0>>, <<0, 1>> }

Limits == {1, 5}

NoFind == [mode |-> "none"]

NoCall == [cores |-> {}, failed |-> {}, overlap |-> FALSE, done |-> FALSE]

\* What identifies a chunk of an indexing: its id and its text.
Core(chunk) == [id |-> chunk.id, content |-> chunk.content]

CoresOfFile(chunks, f) == {Core(chunks[i]) : i \in {j \in 1..Len(chunks) : chunks[j].file = f}}

Ids(chunks) == [i \in 1..Len(chunks) |-> chunks[i].id]

\* The index calls in flight, as a reader sees them: the file, the chunks the
\* file had when the call started and the chunks the call is installing.
InFlight == {[file |-> c.file, old |-> c.old, new |-> CoresOfFile(c.chunks, c.file)] : c \in indexCalls}

InitIndexState ==
  /\ embeddings = <<>>
  /\ chunkIndex = <<>>
  /\ fileChunks = [f \in Files |-> <<>>]
  /\ apiKey = FALSE
  /\ indexCalls = {}
  /\ findCalls = {}
  /\ lastFind = NoFind
  /\ indexings = 0
  /\ lastDone = [f \in Files |-> NoCall]

\* updateCredentials(apiKey, baseURL); the empty string counts as no key.
UpdateCredentials(key) ==
  /\ apiKey' = key
  /\ apiKey # key
  /\ lastFind' = NoFind
  /\ UNCHANGED <<embeddings, chunkIndex, fileChunks, indexCalls, findCalls, indexings, lastDone>>

\* indexFile up to its first `await this.createEmbedding(chunk.content)`:
\* the chunks of the previous indexing are removed, the new chunks are cut.
\* createEmbedding throws at once without an API key (field keyed).
IndexFileStart(filePath, content) ==
  /\ Cardinality(indexCalls) < MaxIndexCalls
  /\ indexings < MaxIndexings
  /\ indexings' = indexings + 1
  /\ lastFind' = NoFind
  /\ LET existingChunks == fileChunks[filePath]
         chunks == chunkFile(content, filePath)
         cid == indexings + 1
         overlapping == {c \in indexCalls : c.file = filePath}
     IN  /\ embeddings' = MapDeleteAll(embeddings, existingChunks)
         /\ chunkIndex' = MapDeleteAll(chunkIndex, existingChunks)
         /\ indexCalls' =
              {IF c \in overlapping THEN [c EXCEPT !.overlap = TRUE] ELSE c : c \in indexCalls}
              \cup
              {[cid |-> cid, file |-> filePath, chunks |-> chunks, next |-> 1,
                keyed |-> apiKey, old |-> CoresOfFile(chunkIndex, filePath),
                overlap |-> overlapping # {}, failed |-> {}]}
  /\ UNCHANGED <<fileChunks, apiKey, findCalls, lastDone>>

\* indexFile resumes with the answer for chunk call.next: the embedding is
\* stored, or the chunk is skipped when the request failed; then the next
\* request is issued, or after the last chunk the file mapping is written.
IndexFileResume(call, ok, embedding) ==
  /\ call \in indexCalls
  /\ ok => call.keyed
  /\ LET chunk == [call.chunks[call.next] EXCEPT !.embedding = embedding]
         last == call.next = Len(call.chunks)
         failed == IF ok THEN call.failed ELSE call.failed \cup {Core(chunk)}
     IN  /\ embeddings' = IF ok THEN MapSet(embeddings, [id |-> chunk.id, embedding |-> embedding])
                          ELSE embeddings
         /\ chunkIndex' = IF ok THEN MapSet(chunkIndex, chunk) ELSE chunkIndex
         /\ indexCalls' = IF last THEN indexCalls \ {call}
                          ELSE (indexCalls \ {call}) \cup
                               {[call EXCEPT !.next = call.next + 1, !.keyed = apiKey,
                                             !.failed = failed]}
         /\ fileChunks' = IF last THEN [fileChunks EXCEPT ![call.file] = Ids(call.chunks)]
                          ELSE fileChunks
         /\ lastDone' = IF last
                        THEN [lastDone EXCEPT ![call.file] =
                                [ cores   |-> CoresOfFile(call.chunks, call.file),
                                  failed  |-> failed,
                                  overlap |-> call.overlap,
                                  done    |-> TRUE ]]
                        ELSE lastDone
  /\ lastFind' = NoFind
  /\ UNCHANGED <<apiKey, findCalls, indexings>>

\* Variant: the catch block rethrows.
afterEmbedding_Rethrows(chunkIndex_, embeddings_, query, limit, ok, queryEmbedding) ==
  IF ok
  THEN [mode |-> "dense", result |-> denseRanking(embeddings_, chunkIndex_, queryEmbedding, limit)]
  ELSE [mode |-> "rejected", result |-> <<>>]

\* findRelevantContext once `await this.createEmbedding(query)` has settled:
\* the dense ranking, or in the catch block the lexical ranking.
afterEmbedding(chunkIndex_, embeddings_, query, limit, ok, queryEmbedding) ==
  IF ok
  THEN [mode |-> "dense", result |-> denseRanking(embeddings_, chunkIndex_, queryEmbedding, limit)]
  ELSE [mode |-> "fallback", result |-> findRelevantContextFallback(chunkIndex_, query, limit)]

\* What a findRelevantContext call read and returned: whether a key was set
\* when it was made, whether its embedding request succeeded and with which
\* embedding, the outcome, the chunks it saw per file and the calls in flight.
FindRecord(query, limit, keyed, ok, queryEmbedding, outcome) ==
  [ mode   |-> outcome.mode,
    query  |-> query,
    limit  |-> limit,
    keyed  |-> keyed,
    ok     |-> ok,
    queryEmbedding |-> queryEmbedding,
    result |-> outcome.result,
    seen   |-> [f \in Files |-> CoresOfFile(chunkIndex, f)],
    active |-> InFlight ]

\* findRelevantContext without an API key: the lexical ranking, at once.
FindFallbackNoKey(query, limit) ==
  /\ ~apiKey
  /\ lastFind' = FindRecord(query, limit, FALSE, FALSE, NoEmbedding,
                            [mode |-> "fallback",
                             result |-> findRelevantContextFallback(chunkIndex, query, limit)])
  /\ UNCHANGED <<embeddings, chunkIndex, fileChunks, apiKey, indexCalls, findCalls, indexings,
                 lastDone>>

\* findRelevantContext with an API key, up to `await this.createEmbedding(query)`.
FindStart(query, limit) ==
  /\ apiKey
  /\ Cardinality(findCalls) < MaxFindCalls
  /\ findCalls' = findCalls \cup {[query |-> query, limit |-> limit]}
  /\ lastFind' = NoFind
  /\ UNCHANGED <<embeddings, chunkIndex, fileChunks, apiKey, indexCalls, indexings, lastDone>>

\* The query embedding arrived or the request failed.
FindResume(call, ok, queryEmbedding) ==
  /\ call \in findCalls
  /\ findCalls' = findCalls \ {call}
  /\ lastFind' = FindRecord(call.query, call.limit, TRUE, ok, queryEmbedding,
                            afterEmbedding(chunkIndex, embeddings, call.query, call.limit,
                                           ok, queryEmbedding))
  /\ UNCHANGED <<embeddings, chunkIndex, fileChunks, apiKey, indexCalls, indexings, lastDone>>

(***************************************************************************)
(* FileWatcher and CursorCache (cursorCache.ts).                           *)
(***************************************************************************)
VARIABLES
  clock,             \* Date.now()
  lastContent,       \* FileWatcher.lastContent; the empty string when unset
  handlers,          \* per file, the fileChanged handlers suspended before
                     \* invalidateRelatedCache
  cache,             \* CursorCache.cache: Map key -> CacheEntry
  lastContextQuery,
  lastContextResult,
  calls,             \* getContext calls suspended in `await this.buildContext(query)`
  buildCount,        \* number of buildContext invocations (the rebuild counter)
  ctxCount,          \* number of Context objects created; the next one gets ctxCount + 1
  outdated,          \* ids of the Contexts that hold a chunk of a file whose change
                     \* was reported after they were built
  lastOp,            \* the latest operation on the CursorCache and what it returned
  overtaken          \* the getContext calls that were in flight when a change was
                     \* reported, with the file and whether its handler has run

cacheVars == <<clock, lastContent, handlers, cache, lastContextQuery, lastContextResult,
               calls, buildCount, ctxCount, outdated, lastOp, overtaken>>

\* The source sets maxCacheSize = 100 and cacheTimeout = 300000 ms
\* (cursorCache.ts:227-228).  The model runs the same code at a capacity and
\* a timeout (in clock ticks) small enough to fill and to outlive.
maxCacheSize == 1
cacheTimeout == 0

MaxClock == 1
MaxBuilds == 2
MaxCalls == 2
MaxHandlers == 1
MaxAccess == 2

NoQuery == [filePath |-> "none"]
NoContext == [id |-> 0]
NoProject == "null"

\* Two ProjectContext objects with the same main document name.
Projects == {"P1", "P2"}
mainDocumentName(project) == << <<"main.tex">> >>

Query(content, cursorPosition, filePath, projectContext) ==
  [ content |-> content, cursorPosition |-> cursorPosition, filePath |-> filePath,
    projectContext |-> projectContext ]

Queries ==
  { Query(<< <<"b">> >>, 0, "a.tex", NoProject),
    Query(<< <<"a">> >>, 0, "b.tex", NoProject),
    Query(<< <<"a", "b">> >>, 1, "a.tex", "P1") }

\* The contents reported to triggerFileChange.
ReportedTexts == { EmptyString, << <<"a">>, <<"b">> >> }

\* Variant: a line that differs from the old line at its index is not a change.
detectChanges_NoReplace(oldContent, newContent) ==
  LET n == Max(Len(oldContent), Len(newContent))
      changeAt(i) ==
        IF i > Len(oldContent) THEN <<[type |-> "insert", startLine |-> i - 1, endLine |-> i - 1]>>
        ELSE IF i > Len(newContent)
             THEN <<[type |-> "delete", startLine |-> i - 1, endLine |-> i - 1]>>
        ELSE <<>>
      RECURSIVE collect(_)
      collect(i) == IF i > n THEN <<>> ELSE changeAt(i) \o collect(i + 1)
  IN  collect(1)

\* FileWatcher.detectChanges: the line-by-line diff.
detectChanges(oldContent, newContent) ==
  LET oldLines == oldContent
      newLines == newContent
      n == Max(Len(oldLines), Len(newLines))
      changeAt(i) ==
        IF i > Len(oldLines) THEN <<[type |-> "insert", startLine |-> i - 1, endLine |-> i - 1]>>
        ELSE IF i > Len(newLines)
             THEN <<[type |-> "delete", startLine |-> i - 1, endLine |-> i - 1]>>
        ELSE IF oldLines[i] # newLines[i]
             THEN <<[type |-> "replace", startLine |-> i - 1, endLine |-> i - 1]>>
        ELSE <<>>
      RECURSIVE collect(_)
      collect(i) == IF i > n THEN <<>> ELSE changeAt(i) \o collect(i + 1)
  IN  collect(1)

\* Variant: the content comparison is inverted.
isIdenticalQuery_ContentDiffers(query1, query2) ==
  /\ query1.filePath = query2.filePath
  /\ query1.cursorPosition = query2.cursorPosition
  /\ query1.content # query2.content
  /\ query1.projectContext = query2.projectContext

isIdenticalQuery(query1, query2) ==
  /\ query1.filePath = query2.filePath
  /\ query1.cursorPosition = query2.cursorPosition
  /\ query1.content = query2.content
  /\ query1.projectContext = query2.projectContext

generateCacheKey(query) ==
  LET content == SliceLast(query.content, SliceWindow)
      projectHash == IF query.projectContext # NoProject
                     THEN <<"hash", hashString(mainDocumentName(query.projectContext))>>
                     ELSE <<"no-project">>
  IN  <<query.filePath, query.cursorPosition, hashString(content), projectHash>>

isStale(cacheKey) ==
  IF ~MapHas(cache, cacheKey) THEN TRUE
  ELSE (clock - MapGet(cache, cacheKey).context.timestamp) > cacheTimeout

HasChunkOf(context, filePath) ==
  \E i \in 1..Len(context.relevantChunks) : context.relevantChunks[i].file = filePath

\* Variant: an entry is related only when all its chunks are of the file.
invalidateRelatedCache_EveryChunk(table, filePath) ==
  LET keysToRemove ==
        SelectSeq(table, LAMBDA e :
          \A i \in 1..Len(e.context.relevantChunks) :
            e.context.relevantChunks[i].file = filePath)
  IN  MapDeleteAll(table, [i \in 1..Len(keysToRemove) |-> keysToRemove[i].id])

\* invalidateRelatedCache: the table without the entries related to the file.
invalidateRelatedCache(table, filePath) ==
  LET keysToRemove == SelectSeq(table, LAMBDA e : HasChunkOf(e.context, filePath))
  IN  MapDeleteAll(table, [i \in 1..Len(keysToRemove) |-> keysToRemove[i].id])

\* Variant: the lowest accessCount sorts first.
SortsBefore_LeastUsedFirst(a, b) ==
  LET accessDiff == a.accessCount - b.accessCount
  IN  IF accessDiff # 0 THEN accessDiff < 0 ELSE a.lastAccess - b.lastAccess < 0

\* The comparator of cleanupCache: a sorts before b.
SortsBefore(a, b) ==
  LET accessDiff == b.accessCount - a.accessCount
  IN  IF accessDiff # 0 THEN accessDiff < 0 ELSE a.lastAccess - b.lastAccess < 0

RECURSIVE InsertEntry(_, _)
InsertEntry(sorted, x) ==
  IF sorted = <<>> THEN <<x>>
  ELSE IF SortsBefore(x, sorted[1]) THEN <<x>> \o sorted
  ELSE <<sorted[1]>> \o InsertEntry(Tail(sorted), x)

RECURSIVE SortEntriesFrom(_, _)
SortEntriesFrom(sorted, rest) ==
  IF rest = <<>> THEN sorted
  ELSE SortEntriesFrom(InsertEntry(sorted, rest[1]), Tail(rest))

\* Variant: one entry too few is removed.
toRemove_OneTooFew(table) ==
  IF Len(table) <= maxCacheSize THEN <<>>
  ELSE Take(SortEntriesFrom(<<>>, table), Len(table) - maxCacheSize - 1)

\* The entries cleanupCache removes from a table.
toRemove(table) ==
  IF Len(table) <= maxCacheSize THEN <<>>
  ELSE Take(SortEntriesFrom(<<>>, table), Len(table) - maxCacheSize)

cleanupCache(table) ==
  LET removed == toRemove(table)
  IN  MapDeleteAll(table, [i \in 1..Len(removed) |-> removed[i].id])

\* buildContext: the chunks findRelevantContext answered, in the shape of the
\* cache's CodeChunk.  localContext and projectSummary depend on the query
\* alone and are left out.
buildContext(query, relevantChunks) ==
  [ id             |-> ctxCount + 1,
    relevantChunks |-> [i \in 1..Len(relevantChunks) |->
                          [ id        |-> relevantChunks[i].id,
                            content   |-> relevantChunks[i].content,
                            file      |-> relevantChunks[i].file,
                            startLine |-> relevantChunks[i].startLine,
                            endLine   |-> relevantChunks[i].endLine,
                            vector    |-> relevantChunks[i].embedding,
                            type      |-> relevantChunks[i].type ]],
    timestamp      |-> clock,
    queryHash      |-> hashString(query.content) ]

\* The Context objects the cache can still return.
LiveContexts ==
  {cache[i].context : i \in 1..Len(cache)}
    \cup (IF lastContextResult # NoContext THEN {lastContextResult} ELSE {})

\* lastOp after an operation that returned no Context.
Other == [op |-> "other"]

\* lastOp after a getContext call returned: the Context, the path that served
\* it, the entries cleanupCache removed, whether the key was new to the table,
\* and whether the operation before was a returned getContext of this query.
Returned(query, context, path, evicted, newKey) ==
  [ op |-> "return", query |-> query, ctx |-> context, path |-> path,
    evicted |-> evicted, newKey |-> newKey,
    repeat |-> lastOp.op = "return" /\ lastOp.query = query ]

Tick ==
  /\ clock < MaxClock
  /\ clock' = clock + 1
  /\ UNCHANGED <<lastContent, handlers, cache, lastContextQuery, lastContextResult, calls,
                 buildCount, ctxCount, outdated, lastOp>>

\* CursorCache.triggerFileChange -> FileWatcher.triggerFileChange.  With a
\* non-empty diff the new content is recorded and the fileChanged handler
\* starts; it suspends at its first await, before the invalidation.
TriggerFileChange(filePath, newContent) ==
  LET oldContent == lastContent[filePath]
      changes == detectChanges(oldContent, newContent)
  IN  IF Len(changes) > 0
      THEN /\ handlers[filePath] < MaxHandlers
           /\ lastContent' = [lastContent EXCEPT ![filePath] = newContent]
           /\ handlers' = [handlers EXCEPT ![filePath] = @ + 1]
           /\ outdated' = outdated \cup
                {c.id : c \in {d \in LiveContexts : HasChunkOf(d, filePath)}}
           /\ lastOp' = Other
           /\ UNCHANGED <<clock, cache, lastContextQuery, lastContextResult, calls,
                          buildCount, ctxCount>>
      ELSE /\ lastOp' = Other
           /\ UNCHANGED <<clock, lastContent, handlers, cache, lastContextQuery,
                          lastContextResult, calls, buildCount, ctxCount, outdated>>

\* The rest of the fileChanged handler, after its awaits.
\* The incremental index holds no chunk here (only buildSemanticIndex fills
\* it), so the updateChunk calls the handler awaits find nothing to re-index.
FileChangedHandler(filePath) ==
  /\ handlers[filePath] > 0
  /\ handlers' = [handlers EXCEPT ![filePath] = @ - 1]
  /\ cache' = invalidateRelatedCache(cache, filePath)
  /\ IF lastContextQuery # NoQuery /\ lastContextQuery.filePath = filePath
     THEN lastContextQuery' = NoQuery /\ lastContextResult' = NoContext
     ELSE UNCHANGED <<lastContextQuery, lastContextResult>>
  /\ lastOp' = [op |-> "handled", filePath |-> filePath, before |-> cache]
  /\ UNCHANGED <<clock, lastContent, calls, buildCount, ctxCount, outdated>>

FastPath(query) ==
  lastContextQuery # NoQuery /\ isIdenticalQuery(lastContextQuery, query)

\* getContext served by the remembered last result.
GetContextFast(query) ==
  /\ FastPath(query)
  /\ lastOp' = Returned(query, lastContextResult, "fast", <<>>, FALSE)
  /\ UNCHANGED <<clock, lastContent, handlers, cache, lastContextQuery, lastContextResult,
                 calls, buildCount, ctxCount, outdated>>

\* getContext served by a fresh table entry.
GetContextHit(query) ==
  LET cacheKey == generateCacheKey(query)
  IN  /\ ~FastPath(query)
      /\ MapHas(cache, cacheKey) /\ ~isStale(cacheKey)
      /\ LET entry == MapGet(cache, cacheKey)
         IN  /\ entry.accessCount < MaxAccess
             /\ cache' = MapSet(cache, [entry EXCEPT !.lastAccess = clock,
                                                     !.accessCount = @ + 1])
             /\ lastContextQuery' = query
             /\ lastContextResult' = entry.context
             /\ lastOp' = Returned(query, entry.context, "hit", <<>>, FALSE)
      /\ UNCHANGED <<clock, lastContent, handlers, calls, buildCount, ctxCount, outdated>>

\* getContext on a miss or a stale entry, up to `await this.buildContext(query)`.
GetContextMiss(query) ==
  LET cacheKey == generateCacheKey(query)
  IN  /\ ~FastPath(query)
      /\ ~(MapHas(cache, cacheKey) /\ ~isStale(cacheKey))
      /\ Cardinality(calls) < MaxCalls
      /\ buildCount < MaxBuilds
      /\ buildCount' = buildCount + 1
      /\ calls' = calls \cup {[cid |-> buildCount + 1, query |-> query]}
      /\ lastOp' = Other
      /\ UNCHANGED <<clock, lastContent, handlers, cache, lastContextQuery,
                     lastContextResult, ctxCount, outdated>>

\* getContext resumes with the chunks findRelevantContext answered: the
\* Context is created and stored, the fast path is updated, the table is
\* cleaned up, the Context is returned.
GetContextResume(call, relevantChunks) ==
  /\ call \in calls
  /\ LET context == buildContext(call.query, relevantChunks)
         cacheKey == generateCacheKey(call.query)
         stored == MapSet(cache, [id |-> cacheKey, context |-> context,
                                  lastAccess |-> clock, accessCount |-> 1])
     IN  /\ cache' = cleanupCache(stored)
         /\ lastContextQuery' = call.query
         /\ lastContextResult' = context
         /\ lastOp' = Returned(call.query, context, "built", toRemove(stored),
                               ~MapHas(cache, cacheKey))
  /\ calls' = calls \ {call}
  /\ ctxCount' = ctxCount + 1
  /\ UNCHANGED <<clock, lastContent, handlers, buildCount, outdated>>

ClearCache ==
  /\ cache' = <<>>
  /\ lastContextQuery' = NoQuery
  /\ lastContextResult' = NoContext
  /\ lastOp' = Other
  /\ UNCHANGED <<clock, lastContent, handlers, calls, buildCount, ctxCount, outdated>>

\* What semanticIndex.findRelevantContext(query.content.slice(-300), 5) may
\* answer: the dense ranking for some query embedding when a key is set, or
\* the lexical ranking (no key, or the embedding request failed).
RelevantChunkAnswers(query) ==
  LET text == SliceLast(query.content, SliceWindow)
  IN  {findRelevantContextFallback(chunkIndex, text, 5)} \cup
      (IF apiKey THEN {denseRanking(embeddings, chunkIndex, e, 5) : e \in EmbeddingValues}
       ELSE {})

InitCacheState ==
  /\ clock = 0
  /\ lastContent = [f \in Files |-> EmptyString]
  /\ handlers = [f \in Files |-> 0]
  /\ cache = <<>>
  /\ lastContextQuery = NoQuery
  /\ lastContextResult = NoContext
  /\ calls = {}
  /\ buildCount = 0
  /\ ctxCount = 0
  /\ outdated = {}
  /\ lastOp = Other
  /\ overtaken = {}

\* The index after updateCredentials(key), indexFile("a.tex", "a") and
\* indexFile("b.tex", "\\section{S} b") with every embedding answered, and
\* updateCredentials("") after that: findRelevantContext ranks lexically.
IndexedChunks ==
  LET a == chunkFile(<< <<"a">> >>, "a.tex")
      b == chunkFile(<< <<"\\section{S}", "b">> >>, "b.tex")
  IN  << [a[1] EXCEPT !.embedding = <<1, 0>>],
         [b[1] EXCEPT !.embedding = <<0, 1>>] >>

\* The index holding the given embedded chunks after n indexFile calls, the
\* API key removed again.
Indexed(chunks, n) ==
  /\ chunkIndex = chunks
  /\ embeddings = [i \in 1..Len(chunks) |->
                     [id |-> chunks[i].id, embedding |-> chunks[i].embedding]]
  /\ fileChunks = [f \in Files |-> Ids(SelectSeq(chunks, LAMBDA c : c.file = f))]
  /\ apiKey = FALSE
  /\ indexCalls = {}
  /\ findCalls = {}
  /\ lastFind = NoFind
  /\ indexings = n
  /\ lastDone = [f \in Files |->
                   [ cores   |-> CoresOfFile(chunks, f),
                     failed  |-> {},
                     overlap |-> FALSE,
                     done    |-> CoresOfFile(chunks, f) # {} ]]

InitIndexed == Indexed(IndexedChunks, 2)

(***************************************************************************)
(* CodeChunker (improvement.ts).  Of the eight extractors only the section *)
(* and the equation patterns match a word of the alphabet; figures,        *)
(* tables, citations, definitions, theorems and proofs find nothing.       *)
(***************************************************************************)
\* The words /\\(section|...)\*?\{([^}]+)\}/ matches, with match[1] and match[2].
SectionWords == {"\\section{S}"}
SectionKind(w) == IF w = "\\section{S}" THEN "section" ELSE "none"
SectionTitle(w) == IF w = "\\section{S}" THEN "S" ELSE "none"

\* The index in its line of the first character of word k.
RECURSIVE OffsetOf(_, _)
OffsetOf(line, k) ==
  IF k = 1 THEN 0 ELSE OffsetOf(line, k - 1) + Len(CodeOf(line[k - 1])) + 1

\* sectionRegex.exec(line): the regex is global, so the search starts at the
\* lastIndex the previous exec left behind.  The matching word, 0 for null.
sectionExec(line, lastIndex) ==
  LET hits == {k \in 1..Len(line) :
                 line[k] \in SectionWords /\ OffsetOf(line, k) >= lastIndex}
  IN  IF hits = {} THEN 0 ELSE CHOOSE k \in hits : \A j \in hits : k <= j

getSectionLevel(sectionType) ==
  CASE sectionType = "part" -> 0
    [] sectionType = "chapter" -> 1
    [] sectionType = "section" -> 2
    [] sectionType = "subsection" -> 3
    [] sectionType = "subsubsection" -> 4
    [] OTHER -> 2

getSectionType(level) ==
  CASE level = 3 -> "subsection"
    [] level = 4 -> "subsubsection"
    [] OTHER -> "section"

NoSection == [title |-> "null"]

\* extractSections; i counts lines from 0 as the source does.
RECURSIVE sectionLoop(_, _, _, _, _)
sectionLoop(lines, i, lastIndex, sections, currentSection) ==
  IF i >= Len(lines)
  THEN IF currentSection # NoSection
       THEN Append(sections, [currentSection EXCEPT !.endLine = Len(lines) - 1])
       ELSE sections
  ELSE LET line == lines[i + 1]
           k == sectionExec(line, lastIndex)
       IN  IF k # 0
           THEN sectionLoop(lines, i + 1, OffsetOf(line, k) + Len(CodeOf(line[k])),
                            IF currentSection # NoSection
                            THEN Append(sections, [currentSection EXCEPT !.endLine = i - 1])
                            ELSE sections,
                            [ title     |-> SectionTitle(line[k]),
                              content   |-> <<line>>,
                              level     |-> getSectionLevel(SectionKind(line[k])),
                              startLine |-> i,
                              endLine   |-> i ])
           ELSE sectionLoop(lines, i + 1, 0, sections,
                            IF currentSection # NoSection
                            THEN [currentSection EXCEPT !.content = Append(@, line)]
                            ELSE currentSection)

\* Variant: the final section is not added.
extractSections_WithoutFinal(content) ==
  LET sections == sectionLoop(content, 0, 0, <<>>, NoSection)
  IN  SubSeq(sections, 1, Len(sections) - 1)

extractSections(content) == sectionLoop(content, 0, 0, <<>>, NoSection)

\* The words of a string in reading order, each with its line (from 0) and
\* its place in the line.
RECURSIVE WordPlaces(_, _)
WordPlaces(lines, i) ==
  IF i >= Len(lines) THEN <<>>
  ELSE [k \in 1..Len(lines[i + 1]) |-> [line |-> i, at |-> k, word |-> lines[i + 1][k]]]
       \o WordPlaces(lines, i + 1)

\* content.substring(from, to) for the words from place p to place q.
Between(content, p, q) ==
  [n \in 1..(q.line - p.line + 1) |->
     LET l == p.line + n - 1
         line == content[l + 1]
         first == IF l = p.line THEN p.at ELSE 1
         last == IF l = q.line THEN q.at ELSE Len(line)
     IN  SubSeq(line, first, last)]

\* extractEquations: /\\begin\{(equation|...)\*?\}([\s\S]*?)\\end\{\1\*?\}/g,
\* matched from place `from` on; no word of the alphabet is a \label.
RECURSIVE equationLoop(_, _, _, _)
equationLoop(content, places, from, equations) ==
  LET begins == {n \in from..Len(places) : places[n].word = "\\begin{equation}"}
      b == CHOOSE n \in begins : \A m \in begins : n <= m
      ends == {n \in (b + 1)..Len(places) : places[n].word = "\\end{equation}"}
      e == CHOOSE n \in ends : \A m \in ends : n <= m
  IN  IF begins = {} THEN equations
      ELSE IF ends = {} THEN equations
      ELSE equationLoop(content, places, e + 1,
                        Append(equations,
                               [ content   |-> Between(content, places[b], places[e]),
                                 number    |-> "undefined",
                                 startLine |-> places[b].line,
                                 endLine   |-> places[e].line ]))

extractEquations(content) == equationLoop(content, WordPlaces(content, 0), 1, <<>>)

\* extractProofs: /\\begin\{proof\*?\}([\s\S]*?)\\end\{proof\*?\}/g matches
\* nothing over the alphabet; neither do the patterns of extractFigures,
\* extractTables, extractCitations, extractDefinitions and extractTheorems.
extractProofs(content) == <<>>

\* chunkTexFile at time `now` (lastModified: Date.now()).
chunkTexFile(content, filePath, now) ==
  LET sections == extractSections(content)
      equations == extractEquations(content)
      proofs == extractProofs(content)
  IN  [i \in 1..Len(sections) |->
         [ id           |-> <<filePath, "section", sections[i].title>>,
           content      |-> sections[i].content,
           file         |-> filePath,
           startLine    |-> sections[i].startLine,
           endLine      |-> sections[i].endLine,
           vector       |-> <<>>,
           type         |-> getSectionType(sections[i].level),
           lastModified |-> now,
           metadata     |-> [ title    |-> sections[i].title,
                              level    |-> sections[i].level,
                              filePath |-> filePath ] ]]
      \o
      [i \in 1..Len(equations) |->
         [ id           |-> <<filePath, "equation",
                              IF equations[i].number = "undefined" THEN "unnumbered"
                              ELSE equations[i].number>>,
           content      |-> equations[i].content,
           file         |-> filePath,
           startLine    |-> equations[i].startLine,
           endLine      |-> equations[i].endLine,
           vector       |-> <<>>,
           type         |-> "equation",
           lastModified |-> now,
           metadata     |-> [ filePath       |-> filePath,
                              equationNumber |-> equations[i].number ] ]]
      \o proofs

(***************************************************************************)
(* SemanticContextManager vectors: a component count / freq is kept as the *)
(* pair <<count, freq>>.                                                   *)
(***************************************************************************)
\* chunks.map(c => c.content).join(' ') then toLowerCase().split(/\s+/).
RECURSIVE AllWords(_)
AllWords(chunks) ==
  IF chunks = <<>> THEN <<>>
  ELSE Flatten(chunks[1].content) \o AllWords(Tail(chunks))

splitAllText(chunks) ==
  LET words == AllWords(chunks)
      first == chunks[1].content
      last == chunks[Len(chunks)].content
  IN  IF words = <<>> THEN <<"">>
      ELSE LowerWords((IF first[1] = <<>> THEN <<"">> ELSE <<>>)
                      \o words
                      \o (IF last[Len(last)] = <<>> THEN <<"">> ELSE <<>>))

RECURSIVE calculateWordFrequency(_, _)
calculateWordFrequency(words, freq) ==
  IF words = <<>> THEN freq
  ELSE calculateWordFrequency(
         Tail(words),
         MapSet(freq, [id |-> words[1],
                       freq |-> (IF MapHas(freq, words[1])
                                 THEN MapGet(freq, words[1]).freq ELSE 0) + 1]))

buildVector(text, wordFreq) ==
  LET words == LowerWords(SplitWords(text))
  IN  [i \in 1..Len(wordFreq) |->
         <<Cardinality({n \in 1..Len(words) : words[n] = wordFreq[i].id}),
           wordFreq[i].freq>>]

\* The vector loop of buildSemanticIndex.
withVectors(chunks, now) ==
  LET wordFreq == calculateWordFrequency(splitAllText(chunks), <<>>)
  IN  [i \in 1..Len(chunks) |->
         [chunks[i] EXCEPT !.vector = buildVector(chunks[i].content, wordFreq),
                           !.lastModified = now]]

convertChunkType(type) ==
  CASE type \in {"section", "subsection", "subsubsection",
                 "abstract", "introduction", "conclusion"} -> "section"
    [] type = "equation" -> "equation"
    [] type \in {"figure", "table"} -> "class"
    [] type = "citation" -> "function"
    [] type \in {"definition", "theorem", "proof", "import"} -> type
    [] OTHER -> "section"

\* IncrementalIndex.setChunks
RECURSIVE setChunks(_, _)
setChunks(index, chunks) ==
  IF chunks = <<>> THEN index
  ELSE LET chunk == chunks[1]
           ids == IF MapHas(index.fileChunks, chunk.file)
                  THEN MapGet(index.fileChunks, chunk.file).ids ELSE <<>>
       IN  setChunks([ chunks     |-> MapSet(index.chunks, chunk),
                       fileChunks |-> MapSet(index.fileChunks,
                                             [id |-> chunk.file, ids |-> Append(ids, chunk.id)]) ],
                     Tail(chunks))

EmptyIncrementalIndex == [chunks |-> <<>>, fileChunks |-> <<>>]

\* cursorCache.updateChunks(convertedChunks)
updateChunks(chunks) ==
  setChunks(EmptyIncrementalIndex,
            [i \in 1..Len(chunks) |->
               [ id           |-> chunks[i].id,
                 content      |-> chunks[i].content,
                 file         |-> chunks[i].file,
                 startLine    |-> chunks[i].startLine,
                 endLine      |-> chunks[i].endLine,
                 vector       |-> chunks[i].vector,
                 type         |-> convertChunkType(chunks[i].type),
                 lastModified |-> chunks[i].lastModified ]])

\* SemanticContextManager.cosineSimilarity.  The components count / freq of
\* both vectors are brought to a common denominator, which leaves the cosine
\* as it is.  The source divides without a test: 0 / 0 is NaN, the score
\* [n |-> 0, d2 |-> 0].
lexicalCosineSimilarity(vec1, vec2) ==
  IF Len(vec1) # Len(vec2) THEN ScoreZero
  ELSE LET freqs == {vec1[i][2] : i \in 1..Len(vec1)} \cup {vec2[i][2] : i \in 1..Len(vec2)}
           RECURSIVE multiple(_)
           multiple(m) == IF \A f \in freqs : m % f = 0 THEN m ELSE multiple(m + 1)
           scaled(vec) == [i \in 1..Len(vec) |-> vec[i][1] * (multiple(1) \div vec[i][2])]
           dotProduct == Dot(scaled(vec1), scaled(vec2))
           norm1 == Dot(scaled(vec1), scaled(vec1))
           norm2 == Dot(scaled(vec2), scaled(vec2))
       IN  Score(dotProduct, norm1 * norm2)

NaN == Score(0, 0)

\* getRelevantContext: the chunks of the index with their scores for a query.
scoreChunks(chunks, query) ==
  LET queryVector == buildVector(query, calculateWordFrequency(splitAllText(chunks), <<>>))
  IN  [i \in 1..Len(chunks) |->
         [chunk |-> chunks[i], score |-> lexicalCosineSimilarity(queryVector, chunks[i].vector)]]

\* getRelevantContext: filter, sort, slice, map.
rankChunks(chunks, query, maxResults) ==
  LET kept == SelectSeq(scoreChunks(chunks, query), LAMBDA item : AboveThreshold(item.score))
      top == Take(SortByScore(kept), maxResults)
  IN  [i \in 1..Len(top) |-> top[i].chunk]

(***************************************************************************)
(* State of the SemanticContextManager singleton and of the module-level   *)
(* semanticIndexCache.  Snapshot objects live in `snapshots`; a reference  *)
(* to one is its index there, 0 stands for null.                           *)
(***************************************************************************)
VARIABLES
  semanticIndexCache,  \* reference to the published SemanticIndex, or 0
  snapshots,           \* the SemanticIndex objects created so far
  semBuilds,           \* buildSemanticIndex calls suspended in `await semanticIndex.indexFile`
  lastQuery,
  lastResults,
  incrementalIndex,    \* CursorCache.incrementalIndex.data: chunks and fileChunks
  rebuilds,            \* number of rebuilds started
  invalidated,         \* invalidateCache ran and no buildSemanticIndex call was made since
  rankedOn,            \* reference to the snapshot lastResults was ranked on, or 0
  lastSem              \* the latest operation on the manager and what it returned

semVars == <<semanticIndexCache, snapshots, semBuilds, lastQuery, lastResults,
             incrementalIndex, rebuilds, invalidated, rankedOn, lastSem>>

\* The source sets INDEX_CACHE_DURATION = 60000 ms (improvement.ts:292); the
\* model runs the same comparison with a window of clock ticks.
INDEX_CACHE_DURATION == 2

MaxSemClock == 3
MaxRebuilds == 2
MaxSemBuilds == 2

\* projectContext.allTexFiles of the calls.
TexFile(name, content) == [name |-> name, content |-> content]

ProjectFiles ==
  { <<>>,
    << TexFile("a.tex", << <<"\\section{S}", "a">>, <<"b">> >>) >>,
    << TexFile("a.tex", << <<"a">>, <<"\\section{S}">>, <<"\\section{S}", "b">> >>),
       TexFile("b.tex", << <<"\\begin{equation}", "a">>, <<"\\end{equation}">> >>) >> }

InitSemState ==
  /\ semanticIndexCache = 0
  /\ snapshots = <<>>
  /\ semBuilds = {}
  /\ lastQuery = EmptyString
  /\ lastResults = <<>>
  /\ incrementalIndex = EmptyIncrementalIndex
  /\ rebuilds = 0
  /\ invalidated = FALSE
  /\ rankedOn = 0
  /\ lastSem = Other

SemTick ==
  /\ clock < MaxSemClock
  /\ clock' = clock + 1
  /\ lastSem' = Other
  /\ UNCHANGED <<semanticIndexCache, snapshots, semBuilds, lastQuery, lastResults,
                 incrementalIndex, rebuilds, invalidated, rankedOn>>
  /\ UNCHANGED indexVars

\* Variant: the window test is inverted.
cacheValid_WindowInverted(now) ==
  /\ semanticIndexCache # 0
  /\ now - snapshots[semanticIndexCache].lastUpdate >= INDEX_CACHE_DURATION

\* The cache test of buildSemanticIndex.
cacheValid(now) ==
  /\ semanticIndexCache # 0
  /\ now - snapshots[semanticIndexCache].lastUpdate < INDEX_CACHE_DURATION

BuildReturned(path, snapshot) ==
  [op |-> "build", path |-> path, snapshot |-> snapshot, afterInvalidate |-> invalidated]

\* The caller of buildSemanticIndex: a client of the manager, or
\* getRelevantContext(query, projectContext, maxResults).
NoRanking == [query |-> "none"]

\* buildSemanticIndex returns snapshot `snapshot` of heap `heap` to its caller
\* (after a rebuild of `files` in which indexFile rejected for the files
\* named in `failed`); getRelevantContext ranks its chunks and remembers the
\* query and the result.
Return(then, path, snapshot, heap, files, failed) ==
  IF then = NoRanking
  THEN /\ lastSem' = (IF path = "published"
                      THEN [ op |-> "published", snapshot |-> snapshot,
                             files |-> files, failed |-> failed ]
                      ELSE BuildReturned(path, snapshot))
       /\ UNCHANGED <<lastQuery, lastResults, rankedOn>>
  ELSE LET relevantChunks == rankChunks(heap[snapshot].chunks, then.query, then.maxResults)
       IN  /\ lastQuery' = then.query
           /\ lastResults' = relevantChunks
           /\ rankedOn' = snapshot
           /\ lastSem' = [ op |-> "ranked", reused |-> FALSE, query |-> then.query,
                           maxResults |-> then.maxResults, results |-> relevantChunks ]

\* Variant: the current snapshot object is overwritten.
publish_InPlace(heap, chunks, now) ==
  IF heap = <<>> THEN <<[chunks |-> chunks, lastUpdate |-> now]>>
  ELSE [heap EXCEPT ![Len(heap)] = [chunks |-> chunks, lastUpdate |-> now]]

\* semanticIndexCache = { chunks, lastUpdate: now }: a new object.
publish(heap, chunks, now) == Append(heap, [chunks |-> chunks, lastUpdate |-> now])

\* The end of buildSemanticIndex: vectors, the new snapshot, updateChunks.
Publish(chunks, now) ==
  /\ snapshots' = publish(snapshots, withVectors(chunks, now), now)
  /\ semanticIndexCache' = Len(snapshots')
  /\ incrementalIndex' = updateChunks(snapshots'[semanticIndexCache'].chunks)

\* semanticIndex.indexFile up to its first await: the chunks of the previous
\* indexing of the file leave the index.
IndexFileEnter(file) ==
  /\ embeddings' = MapDeleteAll(embeddings, fileChunks[file.name])
  /\ chunkIndex' = MapDeleteAll(chunkIndex, fileChunks[file.name])

\* buildSemanticIndex finds the snapshot fresh and returns it.
BuildCached(files, then) ==
  /\ cacheValid(clock)
  /\ Return(then, "cached", semanticIndexCache, snapshots, <<>>, {})
  /\ invalidated' = FALSE
  /\ UNCHANGED <<semanticIndexCache, snapshots, semBuilds, incrementalIndex, rebuilds, clock>>
  /\ UNCHANGED indexVars

\* buildSemanticIndex rebuilds a project without files: nothing to await.
BuildEmpty(files, then) ==
  /\ ~cacheValid(clock)
  /\ files = <<>>
  /\ rebuilds < MaxRebuilds
  /\ rebuilds' = rebuilds + 1
  /\ Publish(<<>>, clock)
  /\ Return(then, "rebuilt", semanticIndexCache', snapshots', <<>>, {})
  /\ invalidated' = FALSE
  /\ UNCHANGED <<semBuilds, clock>>
  /\ UNCHANGED indexVars

\* buildSemanticIndex rebuilds: `now` is taken, the first file enters
\* indexFile and the call suspends.
BuildStart(files, then) ==
  /\ ~cacheValid(clock)
  /\ files # <<>>
  /\ rebuilds < MaxRebuilds
  /\ Cardinality(semBuilds) < MaxSemBuilds
  /\ rebuilds' = rebuilds + 1
  /\ semBuilds' = semBuilds \cup
       {[cid |-> rebuilds + 1, files |-> files, next |-> 1, chunks |-> <<>>, now |-> clock,
         then |-> then, failed |-> {}]}
  /\ IndexFileEnter(files[1])
  /\ lastSem' = BuildReturned("rebuilding", 0)
  /\ invalidated' = FALSE
  /\ UNCHANGED <<semanticIndexCache, snapshots, lastQuery, lastResults, incrementalIndex,
                 rankedOn, clock>>
  /\ UNCHANGED <<fileChunks, apiKey, indexCalls, findCalls, lastFind, indexings, lastDone>>

\* The body of the loop over allTexFiles after `await indexFile`: the try
\* block chunks the file and pushes the chunks; when indexFile rejected, the
\* catch block does the same ("fallback to advanced chunking only").
chunksAfterFile(chunks, file, indexFails, now) ==
  chunks \o chunkTexFile(file.content, file.name, now)

\* indexFile of file call.next completes (without an API key every
\* createEmbedding throws and is caught, so only the file mapping is
\* written) or rejects before it writes the file mapping; the file is
\* chunked, and the loop goes on to the next file or the call publishes and
\* returns to its caller.
BuildResume(call, indexFails) ==
  /\ call \in semBuilds
  /\ LET file == call.files[call.next]
         chunks == chunksAfterFile(call.chunks, file, indexFails, clock)
         failed == IF indexFails THEN call.failed \cup {file.name} ELSE call.failed
         last == call.next = Len(call.files)
         mapped == IF indexFails THEN fileChunks
                   ELSE [fileChunks EXCEPT ![file.name] = Ids(chunkFile(file.content, file.name))]
     IN  /\ fileChunks' = mapped
         /\ IF last
            THEN /\ semBuilds' = semBuilds \ {call}
                 /\ Publish(chunks, call.now)
                 /\ Return(call.then, "published", semanticIndexCache', snapshots', call.files, failed)
                 /\ UNCHANGED <<embeddings, chunkIndex>>
            ELSE /\ semBuilds' = (semBuilds \ {call}) \cup
                      {[call EXCEPT !.next = call.next + 1, !.chunks = chunks, !.failed = failed]}
                 /\ embeddings' = MapDeleteAll(embeddings, mapped[call.files[call.next + 1].name])
                 /\ chunkIndex' = MapDeleteAll(chunkIndex, mapped[call.files[call.next + 1].name])
                 /\ lastSem' = Other
                 /\ UNCHANGED <<semanticIndexCache, snapshots, incrementalIndex, lastQuery,
                                lastResults, rankedOn>>
  /\ UNCHANGED <<rebuilds, invalidated, clock>>
  /\ UNCHANGED <<apiKey, indexCalls, findCalls, lastFind, indexings, lastDone>>

\* getRelevantContext(query, projectContext, maxResults) answered from the
\* remembered results of the same query.
Reusable(query) == lastQuery = query /\ Len(lastResults) > 0

GetRelevantContextReuse(query, maxResults) ==
  /\ Reusable(query)
  /\ lastSem' = [ op |-> "ranked", reused |-> TRUE, query |-> query,
                  maxResults |-> maxResults, results |-> Take(lastResults, maxResults) ]
  /\ UNCHANGED <<semanticIndexCache, snapshots, semBuilds, lastQuery, lastResults,
                 incrementalIndex, rebuilds, invalidated, rankedOn, clock>>
  /\ UNCHANGED indexVars

InvalidateCache ==
  /\ semanticIndexCache' = 0
  /\ lastQuery' = EmptyString
  /\ lastResults' = <<>>
  /\ rankedOn' = 0
  /\ invalidated' = TRUE
  /\ lastSem' = Other
  /\ UNCHANGED <<snapshots, semBuilds, incrementalIndex, rebuilds, clock>>
  /\ UNCHANGED indexVars

\* Everything of the CursorCache but the clock.
cacheState == <<lastContent, handlers, cache, lastContextQuery, lastContextResult,
                calls, buildCount, ctxCount, outdated, lastOp, overtaken>>

(***************************************************************************)
(* CursorContextRetriever (contextRetriever.ts): the bundle it composes,   *)
(* budget fitting and task shaping.                                        *)
(***************************************************************************)
VARIABLES
  lastRetrieval   \* the latest retrieval: the bundle as composed and as returned

optVars == <<lastRetrieval>>

TOKEN_BUDGET_total == 4800

MaxOptChunks == 7

CursorPositions == {0, 3}
MaxTokensValues == {0, 3, TOKEN_BUDGET_total}
Tasks == {"completion", "improvement", "refactoring", "documentation"}

getImmediateContext(currentFile, cursorPosition) ==
  [ beforeCursor     |-> EmptyString,
    afterCursor      |-> EmptyString,
    currentLine      |-> EmptyString,
    currentSection   |-> "null",
    surroundingLines |-> <<>>,
    cursorPosition   |-> cursorPosition ]

\* getSemanticContext over the chunks findRelevantContext(query, 10) answered.
getSemanticContext(relevantChunks) ==
  LET contents(type) ==
        LET of == SelectSeq(relevantChunks, LAMBDA chunk : chunk.type = type)
        IN  [i \in 1..Len(of) |-> of[i].content]
  IN  [ relevantChunks     |-> relevantChunks,
        similarContent     |-> [i \in 1..Len(relevantChunks) |-> relevantChunks[i].content],
        relatedDefinitions |-> contents("definition"),
        relatedTheorems    |-> contents("theorem"),
        relatedEquations   |-> contents("equation") ]

getStructuralContext(currentFile) ==
  [ imports       |-> <<>>,
    exports       |-> <<>>,
    dependencies  |-> <<>>,
    outline       |-> [ sections |-> <<>>, equations |-> <<>>, figures |-> <<>>,
                        tables |-> <<>>, citations |-> <<>> ],
    fileStructure |-> [ totalFiles |-> 1, mainFile |-> currentFile, includedFiles |-> <<>>,
                        bibliographyFiles |-> <<>>, imageFiles |-> <<>> ] ]

getRecentlyEditedContext ==
  [recentlyEdited |-> <<>>, recentChanges |-> <<>>, lastEdits |-> <<>>]

\* The bundle getRelevantContext composes before it fits it to the budget.
composeContext(currentFile, cursorPosition, relevantChunks) ==
  [ immediate  |-> getImmediateContext(currentFile, cursorPosition),
    semantic   |-> getSemanticContext(relevantChunks),
    structural |-> getStructuralContext(currentFile),
    recent     |-> getRecentlyEditedContext,
    project    |-> "null" ]

\* str.length
Length(text) == Len(Chars(text))

RECURSIVE SumLengths(_)
SumLengths(texts) ==
  IF texts = <<>> THEN 0 ELSE Length(texts[1]) + SumLengths(Tail(texts))

\* estimateTokens: every length is divided by charToTokenRatio = 4 and the
\* sum is rounded up; quarters add exactly, so this is ceil(chars / 4).
estimateTokens(context) ==
  LET chars == Length(context.immediate.beforeCursor)
               + Length(context.immediate.afterCursor)
               + SumLengths(context.semantic.similarContent)
               + SumLengths([i \in 1..Len(context.structural.outline.sections) |->
                               context.structural.outline.sections[i].content])
  IN  (chars + 3) \div 4

\* Variant: an over-budget bundle also loses its cursor position.
optimizeContext_TrimsImmediate(context, maxTokens) ==
  IF estimateTokens(context) > maxTokens
  THEN [context EXCEPT !.immediate.cursorPosition = 0]
  ELSE context

optimizeContext(context, maxTokens) ==
  LET currentTokens == estimateTokens(context)
      excess == currentTokens - maxTokens
      over == currentTokens > maxTokens /\ excess > 0
      trimSemantic == over /\ Len(context.semantic.relevantChunks) > 5
      trimSections == over /\ Len(context.structural.outline.sections) > 10
      trimRecent == over /\ Len(context.recent.recentlyEdited) > 3
  IN  [context EXCEPT
         !.semantic.relevantChunks = IF trimSemantic THEN Take(@, 5) ELSE @,
         !.semantic.similarContent = IF trimSemantic THEN Take(@, 3) ELSE @,
         !.structural.outline.sections = IF trimSections THEN Take(@, 10) ELSE @,
         !.recent.recentlyEdited = IF trimRecent THEN Take(@, 3) ELSE @]

\* The switch of getFocusedContext.
focus(task, baseContext) ==
  CASE task = "completion" ->
         [baseContext EXCEPT !.semantic.relevantChunks = Take(@, 3)]
    [] task = "improvement" ->
         [baseContext EXCEPT !.semantic.relevantChunks = Take(@, 8)]
    [] task = "documentation" ->
         [baseContext EXCEPT !.semantic.relevantChunks =
            SelectSeq(@, LAMBDA chunk : chunk.type = "section" \/ chunk.type = "definition")]
    [] OTHER -> baseContext

NoRetrieval == [op |-> "none"]

\* getRelevantContext(currentFile, cursorPosition, query, maxTokens).  Without
\* an API key findRelevantContext reads the index in one step.
GetRelevantContext(currentFile, cursorPosition, query, maxTokens) ==
  /\ ~apiKey
  /\ LET context == composeContext(currentFile, cursorPosition,
                                   findRelevantContextFallback(chunkIndex, query, 10))
     IN  lastRetrieval' =
           [ op |-> "getRelevantContext", maxTokens |-> maxTokens,
             composed |-> context, returned |-> optimizeContext(context, maxTokens) ]

\* getFocusedContext(task, currentFile, cursorPosition, query): the base
\* bundle is fitted to TOKEN_BUDGET.total, then shaped for the task.
GetFocusedContext(task, currentFile, cursorPosition, query) ==
  /\ ~apiKey
  /\ LET context == composeContext(currentFile, cursorPosition,
                                   findRelevantContextFallback(chunkIndex, query, 10))
     IN  lastRetrieval' =
           [ op |-> "getFocusedContext", maxTokens |-> TOKEN_BUDGET_total,
             composed |-> context,
             returned |-> focus(task, optimizeContext(context, TOKEN_BUDGET_total)) ]

\* The text whose indexing leaves n chunks: an equation line, then headings.
OptText(n) ==
  IF n = 0 THEN EmptyString
  ELSE [i \in 1..n |-> IF i = 1 THEN <<"\\begin{equation}", "b">> ELSE <<"\\section{S}", "b">>]

OptChunks(n) ==
  LET chunks == chunkFile(OptText(n), "a.tex")
  IN  [i \in 1..Len(chunks) |-> [chunks[i] EXCEPT !.embedding = <<1, 0>>]]


InitOptState == lastRetrieval = NoRetrieval

(***************************************************************************)
(* projectScanner.ts: createProjectSummary.  Here a file content is the     *)
(* sequence of its UTF-16 code units (10 is '\n', 32 a blank), and a file   *)
(* object is its place in allTexFiles (0 for an undefined mainDocument).    *)
(***************************************************************************)
MAX_LENGTH_PER_FILE_PREVIEW == 2000
MAX_LENGTH_MAIN_FILE_PREVIEW == 3000
MAX_LENGTH_CURRENT_FILE_PREVIEW == 2500
MAX_TOTAL_PROJECT_CONTEXT == 15000

MaxSummaryFiles == 4

Min(a, b) == IF a < b THEN a ELSE b

\* content.substring(from, to) for 0 <= from <= to.
substring(content, from, to) ==
  SubSeq(content, Min(from, Len(content)) + 1, Min(to, Len(content)))

\* getRelevantContentPreview.  No content of SummaryContents holds a
\* backslash, so the three lastIndexOf calls answer -1 and startIndex stays 0
\* until the newline test; a newline matters there only below index 100.
getRelevantContentPreview(content, maxLength) ==
  IF Len(content) <= maxLength THEN content
  ELSE LET hits == {i \in 1..Min(Len(content), 100) : content[i] = 10}
           nextNewline == IF hits = {} THEN -1
                          ELSE (CHOOSE i \in hits : \A j \in hits : i <= j) - 1
           startIndex == IF nextNewline > 0 /\ nextNewline < 100 THEN nextNewline + 1 ELSE 0
       IN  substring(content, startIndex, startIndex + maxLength)

\* preview.replace(/\n/g, '\\n').trim().length: every newline becomes the two
\* characters backslash and n, then the blanks at both ends are removed.
cleanPreviewLength(preview) ==
  LET newlines == Cardinality({i \in 1..Len(preview) : preview[i] = 10})
      leading == Cardinality({k \in 1..Len(preview) : \A i \in 1..k : preview[i] = 32})
      trailing == Cardinality({k \in 1..Len(preview) :
                                 \A i \in (Len(preview) - k + 1)..Len(preview) : preview[i] = 32})
  IN  IF leading = Len(preview) THEN 0
      ELSE Len(preview) + newlines - leading - trailing

\* [...allTexFiles].sort(...): the main document, then the files named as
\* the current file, then the others, each group in its order.
sortedFiles(projectContext) ==
  LET places == [i \in 1..Len(projectContext.allTexFiles) |-> i]
      isMain(i) == i = projectContext.mainDocument
      isCurrent(i) == projectContext.allTexFiles[i].name = projectContext.currentFile
  IN  SelectSeq(places, isMain)
      \o SelectSeq(places, LAMBDA i : ~isMain(i) /\ isCurrent(i))
      \o SelectSeq(places, LAMBDA i : ~isMain(i) /\ ~isCurrent(i))

\* The loop over sortedFiles: the files taken into the summary and
\* totalContextLength.
RECURSIVE summaryLoop(_, _, _, _)
summaryLoop(projectContext, rest, taken, totalContextLength) ==
  IF rest = <<>>
  THEN [files |-> taken, totalContextLength |-> totalContextLength]
  ELSE LET file == projectContext.allTexFiles[Head(rest)]
           isMain == Head(rest) = projectContext.mainDocument
           isCurrent == file.name = projectContext.currentFile
           previewLength == IF isMain THEN MAX_LENGTH_MAIN_FILE_PREVIEW
                            ELSE IF isCurrent THEN MAX_LENGTH_CURRENT_FILE_PREVIEW
                            ELSE MAX_LENGTH_PER_FILE_PREVIEW
           estimatedFileContext == previewLength + 100
           preview == IF isCurrent
                      THEN getRelevantContentPreview(file.content, previewLength)
                      ELSE substring(file.content, 0, previewLength)
       IN  IF totalContextLength + estimatedFileContext > MAX_TOTAL_PROJECT_CONTEXT
           THEN summaryLoop(projectContext, Tail(rest), taken, totalContextLength)
           ELSE summaryLoop(projectContext, Tail(rest), Append(taken, file.name),
                            totalContextLength + cleanPreviewLength(preview) + 100)

\* createProjectSummary: what the summary lists and reports as context used.
createProjectSummary(projectContext) ==
  IF Len(projectContext.allTexFiles) = 0
  THEN [files |-> <<>>, totalContextLength |-> 0]
  ELSE summaryLoop(projectContext, sortedFiles(projectContext), <<>>, 0)

\* File contents: empty, a short text, and texts longer than every preview
\* length, of letters only and of line breaks only.
SummaryContents ==
  { <<>>, <<97, 10, 98>>,
    [i \in 1..(MAX_LENGTH_MAIN_FILE_PREVIEW + 1) |-> 97],
    [i \in 1..(MAX_LENGTH_MAIN_FILE_PREVIEW + 1) |-> 10] }

SummaryNames == <<"a.tex", "b.tex", "c.tex", "d.tex", "e.tex">>

\* Projects of up to MaxSummaryFiles files of one content each, with or
\* without a main document and a current file among them.
SummaryProjects ==
  { [ allTexFiles  |-> [i \in 1..n |-> [name |-> SummaryNames[i], content |-> content[i]]],
      mainDocument |-> main,
      currentFile  |-> current ] :
      n \in 0..MaxSummaryFiles, content \in [1..MaxSummaryFiles -> SummaryContents],
      main \in {0, 1}, current \in {"unknown", "b.tex"} }

(***************************************************************************)
(* The pure functions of the chunkers and of the rankings, applied to      *)
(* arguments drawn from bounded sets.                                      *)
(***************************************************************************)
VARIABLES
  pureIn,    \* the arguments
  pureOut    \* the function applied and its result

pureVars == <<pureIn, pureOut>>

MaxLines == 3
MaxDim == 2
MaxComponent == 1
MaxSections == 11
MaxRecent == 4

\* The sequences over S of length 0 to n.
SeqsUpTo(S, n) == UNION {[1..k -> S] : k \in 0..n}

\* A bundle as getRelevantContext composes it, with c semantic chunks, s
\* outline sections of one heading line each and r recently edited files.
Bundle(c, s, r) ==
  [composeContext("a.tex", 0, OptChunks(c)) EXCEPT
     !.structural.outline.sections =
        [i \in 1..s |-> [ title |-> "S", content |-> <<<<"\\section{S}">>>>, level |-> 2,
                          startLine |-> i - 1, endLine |-> i - 1 ]],
     !.recent.recentlyEdited = [i \in 1..r |-> "a.tex"]]

TrimBudgets == {0, 50, TOKEN_BUDGET_total}

\* Contents of 1 to MaxLines lines of at most one word; pairs of vectors of
\* up to MaxDim components; bundles below and above the caps of
\* optimizeContext; projects.
PureInputs ==
  LET words == {"a", "\\section{S}", "\\begin{equation}", "\\end{equation}"}
      contents == SeqsUpTo(SeqsUpTo(words, 1), MaxLines) \ {<<>>}
      vectors == SeqsUpTo(0..MaxComponent, MaxDim)
  IN  {[kind |-> "content", content |-> c, filePath |-> f] : c \in contents, f \in Files}
      \cup {[kind |-> "vectors", vec1 |-> v1, vec2 |-> v2] : v1 \in vectors, v2 \in vectors}
      \cup {[kind |-> "bundle", context |-> Bundle(c, s, r), maxTokens |-> maxTokens] :
              c \in {0, MaxOptChunks - 1}, s \in {0, MaxSections - 1, MaxSections},
              r \in {0, MaxRecent}, maxTokens \in TrimBudgets}
      \cup {[kind |-> "project", projectContext |-> p] : p \in SummaryProjects}

NoPure == [kind |-> "none", fn |-> "none"]

InitPureState == pureIn = NoPure /\ pureOut = NoPure

Applied(fn, result) == [fn |-> fn, result |-> result]

ApplyChunkTexFile ==
  /\ pureIn.kind = "content"
  /\ pureOut' = Applied("chunkTexFile", chunkTexFile(pureIn.content, pureIn.filePath, clock))
  /\ UNCHANGED pureIn

ApplyChunkFile ==
  /\ pureIn.kind = "content"
  /\ pureOut' = Applied("chunkFile", chunkFile(pureIn.content, pureIn.filePath))
  /\ UNCHANGED pureIn

\* SemanticContextManager.cosineSimilarity on vectors of counts over
\* frequency 1.
ApplyLexicalCosine ==
  /\ pureIn.kind = "vectors"
  /\ pureOut' = Applied("lexicalCosineSimilarity",
                        lexicalCosineSimilarity(
                          [i \in 1..Len(pureIn.vec1) |-> <<pureIn.vec1[i], 1>>],
                          [i \in 1..Len(pureIn.vec2) |-> <<pureIn.vec2[i], 1>>]))
  /\ UNCHANGED pureIn

\* CursorSemanticIndex.cosineSimilarity
ApplyCosine ==
  /\ pureIn.kind = "vectors"
  /\ pureOut' = Applied("cosineSimilarity", cosineSimilarity(pureIn.vec1, pureIn.vec2))
  /\ UNCHANGED pureIn

ApplyCreateProjectSummary ==
  /\ pureIn.kind = "project"
  /\ pureOut' = Applied("createProjectSummary", createProjectSummary(pureIn.projectContext))
  /\ UNCHANGED pureIn

\* CursorContextRetriever.optimizeContext
ApplyOptimizeContext ==
  /\ pureIn.kind = "bundle"
  /\ pureOut' = Applied("optimizeContext", optimizeContext(pureIn.context, pureIn.maxTokens))
  /\ UNCHANGED pureIn

(***************************************************************************)
(* projectScanner.ts: scanProjectFiles with its module-level cache.        *)
(* ProjectFile objects live in `fileObjects`; a reference to one is its    *)
(* index there, 0 stands for undefined.                                    *)
(***************************************************************************)
VARIABLES
  projectContextCache,  \* the cached ProjectContext, NoProjectContext for null
  lastCacheTime,
  fileObjects,          \* the ProjectFile objects created so far
  scans,                \* scanProjectFiles calls suspended in `await getFileContent`
  scanCount,            \* number of scans started
  lastScan              \* the ProjectContext the latest scanProjectFiles call returned

scanVars == <<projectContextCache, lastCacheTime, fileObjects, scans, scanCount, lastScan>>

\* The source sets CACHE_DURATION = 30000 ms (projectScanner.ts:14); the model
\* runs the same comparison with a window of clock ticks.
CACHE_DURATION == 2

MaxScanClock == 2
MaxScans == 2

\* What the page shows when a scan starts: whether reading the DOM throws,
\* the file name of the editor, and the file-tree elements with their text
\* (both attributes hold the same path).
Pages ==
  [ throws : BOOLEAN, filename : {"", "a.tex"},
    fileTree : { <<>>, <<"a.tex">>, <<"refs.bib", "a.tex", "main.tex">>,
                 <<"main.tex", "paper.tex">> } ]

\* What doc.toString() answers.
DocumentTexts == { EmptyString, << <<"a">> >> }

NoProjectContext == [id |-> 0, currentFile |-> "", allTexFiles |-> <<>>, mainDocument |-> 0]

NoScan == [op |-> "none"]

InitScanState ==
  /\ projectContextCache = NoProjectContext
  /\ lastCacheTime = 0
  /\ fileObjects = <<>>
  /\ scans = {}
  /\ scanCount = 0
  /\ lastScan = NoScan

\* projectContextCache && (now - lastCacheTime) < CACHE_DURATION
scanCacheValid(now) ==
  projectContextCache # NoProjectContext /\ now - lastCacheTime < CACHE_DURATION

\* Variant: only a file with one of the main names becomes the main document.
mainDocumentAfter_NamedOnly(mainDocument, projectFile, fileName) ==
  IF fileName \in {"main.tex", "document.tex", "thesis.tex", "paper.tex"}
  THEN projectFile ELSE mainDocument

\* performProjectScan: mainDocument after projectFile was pushed.
mainDocumentAfter(mainDocument, projectFile, fileName) ==
  IF mainDocument = 0 \/ fileName \in {"main.tex", "document.tex", "thesis.tex", "paper.tex"}
  THEN projectFile ELSE mainDocument

\* The file-tree elements performProjectScan reads: fileName.endsWith('.tex').
texElements(fileTree) ==
  SelectSeq(fileTree, LAMBDA fileName : fileName \in {"a.tex", "main.tex", "paper.tex"})

\* getFileContent: the document text of the opened file; when the file is
\* not found or reading it throws, the empty string (the catch returns '').
getFileContent(readFails, text) == IF readFails THEN EmptyString ELSE text

\* Variant: an exception raised inside performProjectScan reaches the caller.
scanOutcome_Propagates(threw, readFailed, projectContext) ==
  IF threw \/ readFailed
  THEN [op |-> "rejected"]
  ELSE [ op |-> "returned", path |-> "scanned", context |-> projectContext,
         threw |-> threw, readFailed |-> readFailed ]

\* What the caller of scanProjectFiles gets after a scan: performProjectScan
\* catches every exception and returns the ProjectContext it has built.
scanOutcome(threw, readFailed, projectContext) ==
  [ op |-> "returned", path |-> "scanned", context |-> projectContext,
    threw |-> threw, readFailed |-> readFailed ]

\* The end of performProjectScan and of scanProjectFiles: without a file the
\* current document, if it has content, becomes the only file and the main
\* document; the ProjectContext is cached under the time the call started
\* and returned.
ScanReturn(scan, heap, threw, currentContent) ==
  LET fallback == ~threw /\ scan.projectFiles = <<>> /\ currentContent # EmptyString
      currentFileName == IF scan.currentFile # "" THEN scan.currentFile ELSE "main.tex"
      objects == IF fallback
                 THEN Append(heap, [ name |-> currentFileName, content |-> currentContent,
                                     path |-> currentFileName ])
                 ELSE heap
      projectContext ==
        [ id           |-> scan.cid,
          currentFile  |-> scan.currentFile,
          allTexFiles  |-> IF fallback THEN <<Len(objects)>> ELSE scan.projectFiles,
          mainDocument |-> IF fallback THEN Len(objects) ELSE scan.mainDocument ]
  IN  /\ fileObjects' = objects
      /\ projectContextCache' = projectContext
      /\ lastCacheTime' = scan.now
      /\ lastScan' = scanOutcome(threw, scan.readFailed, projectContext)

ScanTick ==
  /\ clock < MaxScanClock
  /\ clock' = clock + 1
  /\ lastScan' = NoScan
  /\ UNCHANGED <<projectContextCache, lastCacheTime, fileObjects, scans, scanCount>>

\* scanProjectFiles returns the cached ProjectContext.
ScanCached ==
  /\ scanCacheValid(clock)
  /\ lastScan' = [ op |-> "returned", path |-> "cached", context |-> projectContextCache,
                    threw |-> FALSE, readFailed |-> FALSE ]
  /\ UNCHANGED <<projectContextCache, lastCacheTime, fileObjects, scans, scanCount, clock>>

\* scanProjectFiles scans: an expired cache is cleared, performProjectScan
\* reads the editor's file name and the file tree and suspends at the first
\* getFileContent; when reading the DOM throws, or no element is a .tex
\* file, it goes to its end at once.
ScanStart(page, currentContent) ==
  /\ ~scanCacheValid(clock)
  /\ scanCount < MaxScans
  /\ scanCount' = scanCount + 1
  /\ LET scan == [ cid |-> scanCount + 1, now |-> clock,
                   currentFile |-> IF page.throws THEN "" ELSE page.filename,
                   elements |-> IF page.throws THEN <<>> ELSE texElements(page.fileTree),
                   projectFiles |-> <<>>, mainDocument |-> 0, readFailed |-> FALSE ]
     IN  IF scan.elements = <<>>
         THEN /\ ScanReturn(scan, fileObjects, page.throws, currentContent)
              /\ UNCHANGED scans
         ELSE /\ scans' = scans \cup {scan}
              /\ projectContextCache' = NoProjectContext
              /\ lastScan' = NoScan
              /\ UNCHANGED <<lastCacheTime, fileObjects>>
  /\ UNCHANGED clock

\* getFileContent answered for the first remaining element: the ProjectFile
\* is created and pushed, the main document is chosen, and the loop goes on
\* to the next element or the scan ends.
ScanResume(scan, readFails, text) ==
  /\ scan \in scans
  /\ LET fileName == scan.elements[1]
         fileContent == getFileContent(readFails, text)
         objects == Append(fileObjects,
                           [name |-> fileName, content |-> fileContent, path |-> fileName])
         projectFile == Len(objects)
         next == [scan EXCEPT !.elements = Tail(@),
                              !.projectFiles = Append(@, projectFile),
                              !.mainDocument = mainDocumentAfter(@, projectFile, fileName),
                              !.readFailed = @ \/ readFails]
     IN  IF next.elements = <<>>
         THEN /\ scans' = scans \ {scan}
              /\ ScanReturn(next, objects, FALSE, EmptyString)
         ELSE /\ scans' = (scans \ {scan}) \cup {next}
              /\ fileObjects' = objects
              /\ lastScan' = NoScan
              /\ UNCHANGED <<projectContextCache, lastCacheTime>>
  /\ UNCHANGED <<scanCount, clock>>

\* invalidateProjectCache.  No scan has returned; the scans in flight at
\* that moment are noted.
InvalidateProjectCache ==
  /\ projectContextCache' = NoProjectContext
  /\ lastCacheTime' = 0
  /\ lastScan' = [op |-> "none", inFlight |-> {scan.cid : scan \in scans}]
  /\ UNCHANGED <<fileObjects, scans, scanCount, clock>>

(***************************************************************************)
(* The generation operations: getImprovement and getImprovementStream      *)
(* (improvement.ts) and getSuggestion (suggestion.ts).  One operation runs *)
(* at a time; `delivered` is what its caller has received: the chunks a    *)
(* generator yielded, or the string getImprovement returned.  A message is *)
(* the sequence of the strings it is concatenated from.                    *)
(***************************************************************************)
VARIABLES
  gen,               \* the running generation operation and where it is suspended
  delivered,         \* the outputs its caller received, oldest first
  genCount,          \* number of operations started
  lastPromptCache,   \* suggestion.ts: lastPromptCache, NoPrompt for null
  lastContentHash    \* suggestion.ts: lastContentHash, <<>> for ''

genVars == <<gen, delivered, genCount, lastPromptCache, lastContentHash>>

MaxGens == 2
MaxTokens == 1

GenFns == {"getImprovement", "getImprovementStream", "getSuggestion"}

\* options.suggestionPrompt: undefined, or a template without '<input>'.
Templates == {"undefined", "T"}

\* A decoded and post-processed token of the response; '' is <<>>.
Tokens == { <<>>, <<"t">> }

\* How an awaited backend request or read settles: 'abort' is the rejection
\* that follows the AbortSignal, 'notOk' a non-success HTTP response,
\* 'network' a failure to reach the backend.
RequestEvents == {"ok", "notOk", "network", "abort"}
ReadEvents == {"token", "done", "network", "abort"}

\* The pages an operation finds: one whose DOM cannot be read, one without
\* a file tree and one with a single file.
GenPages ==
  { page \in Pages :
      /\ page.fileTree \in { <<>>, <<"a.tex">> }
      /\ page.filename = (IF page.throws THEN "" ELSE "a.tex")
      /\ page.throws => page.fileTree = <<>> }

NoPrompt == [content |-> "null"]
Idle == [phase |-> "idle"]

InitGenState ==
  /\ gen = Idle
  /\ delivered = <<>>
  /\ genCount = 0
  /\ lastPromptCache = NoPrompt
  /\ lastContentHash = <<>>

Item(kind, content) == [kind |-> kind, content |-> content]

CapacityMessage(fn) ==
  IF fn = "getSuggestion"
  THEN <<"Server is at capacity. Please try again later or use your own OpenAI API key.">>
  ELSE <<"Server is at capacity. Please select fewer words, try again later or use your own OpenAI API key.">>

AbortedMessage == <<"The request was aborted.">>

\* "An error occurred while generating the content.\n" + error
GenericMessage(error) == <<"An error occurred while generating the content.\n", error>>

\* String(error) of what the OpenAI client throws.
ErrorText(event) ==
  CASE event = "notOk" -> "Error: 429 status code (no body)"
    [] event = "network" -> "Error: Connection error."
    [] OTHER -> "Error: Request was aborted."

\* suggestion.ts hashContent: the 32-bit rolling hash, as a decimal string.
hashContent(content) == <<hashString(content)>>

\* buildEnhancedPrompt: the prompt is determined by the template, the text
\* before the cursor and the chunks of the bundle.
buildEnhancedPrompt(before, template, contextBundle) ==
  [ template |-> template, before |-> before,
    chunks |-> Ids(contextBundle.semantic.relevantChunks) ]

\* What the operation delivers, and whether it goes on to read the
\* response, when its awaited request settles (hosted path: fetch; API-key
\* path: openai.chat.completions.create).
afterRequest(fn, keyed, event) ==
  LET ended(out) == [out |-> out, phase |-> "ended"]
      reading == [out |-> <<>>, phase |-> "reading"]
  IN  IF ~keyed
      THEN CASE event = "ok" -> reading
             [] event = "notOk" ->
                  ended(<<Item(IF fn = "getImprovement" THEN "return" ELSE "error",
                               CapacityMessage(fn))>>)
             [] OTHER ->
                  IF fn = "getImprovement" THEN ended(<<Item("return", AbortedMessage)>>)
                  ELSE ended(<<>>)
      ELSE CASE event = "ok" ->
                  IF fn = "getImprovement" THEN ended(<<Item("return", <<"t">>)>>)
                  ELSE reading
             [] event = "abort" ->
                  IF fn = "getImprovement" THEN ended(<<Item("return", AbortedMessage)>>)
                  ELSE ended(<<>>)
             [] OTHER ->
                  ended(<<Item(IF fn = "getImprovement" THEN "return" ELSE "error",
                               GenericMessage(ErrorText(event)))>>)

\* The same when an awaited read of the response settles: response.json()
\* in getImprovement, reader.read() or the next chunk of the stream in the
\* generators.
afterRead(fn, keyed, event, token) ==
  LET ended(out) == [out |-> out, phase |-> "ended"]
      reading(out) == [out |-> out, phase |-> "reading"]
  IN  IF fn = "getImprovement"
      THEN IF event = "done" THEN ended(<<Item("return", token)>>)
           ELSE ended(<<Item("return", AbortedMessage)>>)
      ELSE IF ~keyed
      THEN CASE event = "token" ->
                  reading(IF token # <<>> THEN <<Item("token", token)>> ELSE <<>>)
             [] OTHER -> ended(<<>>)
      ELSE CASE event = "token" -> reading(<<Item("token", token)>>)
             [] event = "network" -> ended(<<Item("error", GenericMessage(ErrorText(event)))>>)
             [] OTHER -> ended(<<>>)

\* getSuggestion once the focused context is there: the prompt is reused or
\* built and remembered, and the request is issued.
SuggestPrompt(g, relevantChunks) ==
  LET context == composeContext(g.currentFile, Length(g.before), relevantChunks)
      contextBundle == focus("completion", optimizeContext(context, TOKEN_BUDGET_total))
      contentHash == hashContent(g.before)
      canReusePrompt == /\ lastPromptCache # NoPrompt
                        /\ lastContentHash = contentHash
                        /\ lastPromptCache.projectContext = g.projectContext
      prompt == IF canReusePrompt THEN lastPromptCache.prompt
                ELSE buildEnhancedPrompt(g.before, g.template, contextBundle)
  IN  /\ lastRetrieval' = [ op |-> "getFocusedContext", maxTokens |-> TOKEN_BUDGET_total,
                            composed |-> context, returned |-> contextBundle ]
      /\ lastPromptCache' = IF canReusePrompt THEN lastPromptCache
                            ELSE [ content |-> g.before, projectContext |-> g.projectContext,
                                   prompt |-> prompt ]
      /\ lastContentHash' = IF canReusePrompt THEN lastContentHash ELSE contentHash
      /\ gen' = [g EXCEPT !.phase = "request", !.prompt = prompt, !.reused = canReusePrompt]

\* The operation has its project context.  getSuggestion asks the retriever
\* for the focused context, which without an API key in the semantic index
\* is answered at once and with one waits for the query's embedding; the
\* other operations issue their request.
Proceed(g) ==
  IF g.fn = "getSuggestion"
  THEN IF apiKey'
       THEN /\ gen' = [g EXCEPT !.phase = "context"]
            /\ UNCHANGED <<lastRetrieval, lastPromptCache, lastContentHash>>
       ELSE SuggestPrompt(g, findRelevantContextFallback(chunkIndex, SliceLast(g.before, 200), 10))
  ELSE /\ gen' = [g EXCEPT !.phase = "request"]
       /\ UNCHANGED <<lastRetrieval, lastPromptCache, lastContentHash>>

\* An operation starts: getSuggestion passes the API key on to the semantic
\* index, the cached project context is taken or a scan is started.
GenStart(fn, keyed, before, template, page, text) ==
  /\ gen.phase \in {"idle", "ended"}
  /\ genCount < MaxGens
  /\ genCount' = genCount + 1
  /\ delivered' = <<>>
  /\ apiKey' = (apiKey \/ (fn = "getSuggestion" /\ keyed))
  /\ UNCHANGED <<embeddings, chunkIndex, fileChunks, indexCalls, findCalls, lastFind,
                 indexings, lastDone>>
  /\ LET g == [ fn |-> fn, keyed |-> keyed, phase |-> "scan",
                before |-> IF fn = "getSuggestion" THEN before ELSE EmptyString,
                template |-> IF fn = "getSuggestion" THEN template ELSE "undefined",
                prompt |-> NoPrompt, reused |-> FALSE,
                projectContext |-> 0, currentFile |-> "unknown",
                cause |-> "none", deliveredBefore |-> 0 ]
         with(context) ==
           [g EXCEPT !.projectContext = context.id,
                     !.currentFile = IF context.currentFile = "" THEN "unknown"
                                     ELSE context.currentFile]
     IN  IF scanCacheValid(clock)
         THEN /\ UNCHANGED <<scanVars, clock>>
              /\ Proceed(with(projectContextCache))
         ELSE /\ ScanStart(page, text)
              /\ IF lastScan'.op = "returned"
                 THEN Proceed(with(lastScan'.context))
                 ELSE /\ gen' = g
                      /\ UNCHANGED <<lastRetrieval, lastPromptCache, lastContentHash>>

\* getFileContent answers the scan of the running operation; when the scan
\* ends the operation has its project context.
GenScanResume(scan, readFails, text) ==
  /\ gen.phase = "scan"
  /\ ScanResume(scan, readFails, text)
  /\ UNCHANGED <<indexVars, delivered, genCount>>
  /\ IF lastScan'.op = "returned"
     THEN Proceed([gen EXCEPT !.projectContext = lastScan'.context.id,
                              !.currentFile = IF lastScan'.context.currentFile = ""
                                              THEN "unknown"
                                              ELSE lastScan'.context.currentFile])
     ELSE UNCHANGED <<gen, lastRetrieval, lastPromptCache, lastContentHash>>

\* The embedding of getSuggestion's query arrives or fails.
GenContextResume(ok, queryEmbedding) ==
  /\ gen.phase = "context"
  /\ SuggestPrompt(gen, afterEmbedding(chunkIndex, embeddings, SliceLast(gen.before, 200), 10,
                                       ok, queryEmbedding).result)
  /\ UNCHANGED <<indexVars, scanVars, clock, delivered, genCount>>

\* The awaited request settles.
GenRespond(event) ==
  /\ gen.phase = "request"
  /\ LET after == afterRequest(gen.fn, gen.keyed, event)
     IN  /\ delivered' = delivered \o after.out
         /\ gen' = [gen EXCEPT !.phase = after.phase,
                               !.cause = IF event = "ok" THEN "none" ELSE event,
                               !.deliveredBefore = Len(delivered)]
  /\ UNCHANGED <<indexVars, scanVars, clock, lastRetrieval, genCount, lastPromptCache,
                 lastContentHash>>

\* An awaited read of the response settles.
GenRead(event, token) ==
  /\ gen.phase = "reading"
  /\ gen.fn = "getImprovement" => event # "token"
  /\ event = "token" => Len(delivered) < MaxTokens
  /\ LET after == afterRead(gen.fn, gen.keyed, event, token)
     IN  /\ delivered' = delivered \o after.out
         /\ gen' = [gen EXCEPT !.phase = after.phase,
                               !.cause = IF event \in {"token", "done"} THEN "none" ELSE event,
                               !.deliveredBefore = Len(delivered)]
  /\ UNCHANGED <<indexVars, scanVars, clock, lastRetrieval, genCount, lastPromptCache,
                 lastContentHash>>

\* Time passes between the steps of an operation.
GenTick ==
  /\ ScanTick
  /\ UNCHANGED <<indexVars, lastRetrieval, genVars>>

vars == <<indexVars, cacheVars, semVars, optVars, pureVars, scanVars, genVars>>

InitIndex ==
  /\ InitIndexState /\ InitCacheState /\ InitSemState /\ InitOptState
  /\ InitPureState /\ InitScanState /\ InitGenState

\* What each specification leaves alone.
indexFrame == <<cacheVars, semVars, optVars, pureVars, scanVars, genVars>>
cacheFrame == <<indexVars, semVars, optVars, pureVars, scanVars, genVars, overtaken>>
raceFrame == <<indexVars, semVars, optVars, pureVars, scanVars, genVars>>
semFrame == <<cacheState, optVars, pureVars, scanVars, genVars>>
optFrame == <<indexVars, cacheVars, semVars, pureVars, scanVars, genVars>>
pureFrame == <<indexVars, cacheVars, semVars, optVars, scanVars, genVars>>
scanFrame == <<indexVars, cacheState, semVars, optVars, pureVars, genVars>>
genFrame == <<cacheState, semVars, pureVars>>

NextIndex ==
  \/ \E key \in BOOLEAN :
       UpdateCredentials(key) /\ UNCHANGED indexFrame
  \/ \E f \in Files, content \in FileTexts :
       IndexFileStart(f, content) /\ UNCHANGED indexFrame
  \/ \E call \in indexCalls, e \in EmbeddingValues :
       IndexFileResume(call, TRUE, e) /\ UNCHANGED indexFrame
  \/ \E call \in indexCalls :
       IndexFileResume(call, FALSE, NoEmbedding) /\ UNCHANGED indexFrame
  \/ \E q \in QueryTexts, l \in Limits :
       FindFallbackNoKey(q, l) /\ UNCHANGED indexFrame
  \/ \E q \in QueryTexts, l \in Limits :
       FindStart(q, l) /\ UNCHANGED indexFrame
  \/ \E call \in findCalls, e \in EmbeddingValues :
       FindResume(call, TRUE, e) /\ UNCHANGED indexFrame
  \/ \E call \in findCalls :
       FindResume(call, FALSE, NoEmbedding) /\ UNCHANGED indexFrame

SpecIndex == InitIndex /\ [][NextIndex]_vars

\* The cache over the indexed project.
InitCache ==
  /\ InitIndexed /\ InitCacheState /\ InitSemState /\ InitOptState
  /\ InitPureState /\ InitScanState /\ InitGenState

NextCache ==
  \/ Tick /\ UNCHANGED cacheFrame
  \/ \E f \in Files, content \in ReportedTexts :
       TriggerFileChange(f, content) /\ UNCHANGED cacheFrame
  \/ \E f \in Files :
       FileChangedHandler(f) /\ UNCHANGED cacheFrame
  \/ \E q \in Queries :
       GetContextFast(q) /\ UNCHANGED cacheFrame
  \/ \E q \in Queries :
       GetContextHit(q) /\ UNCHANGED cacheFrame
  \/ \E q \in Queries :
       GetContextMiss(q) /\ UNCHANGED cacheFrame
  \/ \E call \in calls : \E chunks \in RelevantChunkAnswers(call.query) :
       GetContextResume(call, chunks) /\ UNCHANGED cacheFrame
  \/ ClearCache /\ UNCHANGED cacheFrame

SpecCache == InitCache /\ [][NextCache]_vars

\* The file watcher alone: contents are reported and the handlers run.
WatchedTexts == { EmptyString, << <<"a">> >>, << <<"b">> >>, << <<"a">>, <<"b">> >> }

NextWatch ==
  \/ Tick /\ UNCHANGED cacheFrame
  \/ \E f \in Files, content \in WatchedTexts :
       TriggerFileChange(f, content) /\ UNCHANGED cacheFrame
  \/ \E f \in Files :
       FileChangedHandler(f) /\ UNCHANGED cacheFrame

SpecWatch == InitCache /\ [][NextWatch]_vars

\* getContext calls that a file change overtakes: a change reported while a
\* call waits for buildContext is noted for that call, and so is the end of
\* the change's handler.
ReportChange(filePath, newContent) ==
  /\ TriggerFileChange(filePath, newContent)
  /\ overtaken' =
       IF Len(detectChanges(lastContent[filePath], newContent)) > 0
       THEN overtaken \cup {[cid |-> call.cid, filePath |-> filePath, handled |-> FALSE] :
                              call \in calls}
       ELSE overtaken

HandleChange(filePath) ==
  /\ FileChangedHandler(filePath)
  /\ overtaken' = {IF o.filePath = filePath THEN [o EXCEPT !.handled = TRUE] ELSE o :
                     o \in overtaken}

NextRace ==
  \/ \E f \in Files, content \in ReportedTexts :
       ReportChange(f, content) /\ UNCHANGED raceFrame
  \/ \E f \in Files :
       HandleChange(f) /\ UNCHANGED raceFrame
  \/ \E q \in Queries :
       GetContextFast(q) /\ UNCHANGED cacheFrame
  \/ \E q \in Queries :
       GetContextMiss(q) /\ UNCHANGED cacheFrame
  \/ \E call \in calls : \E chunks \in RelevantChunkAnswers(call.query) :
       GetContextResume(call, chunks) /\ UNCHANGED cacheFrame

SpecRace == InitCache /\ [][NextRace]_vars


\* the change is handed to the cache's file watcher and the manager's
\* semantic index cache is invalidated.  Neither it nor the fileChanged
\* handler calls semanticIndex.indexFile.
UpdateContextForFileChange(filePath, newContent) ==
  /\ TriggerFileChange(filePath, newContent)
  /\ InvalidateCache

\* The retriever's clients: file changes are reported through
\* updateContextForFileChange, contexts are asked from the cache and chunks
\* from the semantic index.
NextUpdate ==
  \/ Tick /\ UNCHANGED cacheFrame
  \/ \E f \in Files, content \in ReportedTexts :
       UpdateContextForFileChange(f, content)
         /\ UNCHANGED <<optVars, pureVars, scanVars, genVars, overtaken>>
  \/ \E f \in Files :
       FileChangedHandler(f) /\ UNCHANGED cacheFrame
  \/ \E q \in Queries :
       GetContextFast(q) /\ UNCHANGED cacheFrame
  \/ \E q \in Queries :
       GetContextHit(q) /\ UNCHANGED cacheFrame
  \/ \E q \in Queries :
       GetContextMiss(q) /\ UNCHANGED cacheFrame
  \/ \E call \in calls : \E chunks \in RelevantChunkAnswers(call.query) :
       GetContextResume(call, chunks) /\ UNCHANGED cacheFrame
  \/ \E q \in QueryTexts, l \in Limits :
       FindFallbackNoKey(q, l) /\ UNCHANGED indexFrame

SpecUpdate == InitCache /\ [][NextUpdate]_vars

\* The manager over a fresh index without an API key.
InitSem == InitIndex

NextSem ==
  \/ SemTick /\ UNCHANGED semFrame
  \/ \E files \in ProjectFiles :
       BuildCached(files, NoRanking) /\ UNCHANGED semFrame
  \/ \E files \in ProjectFiles :
       BuildEmpty(files, NoRanking) /\ UNCHANGED semFrame
  \/ \E files \in ProjectFiles :
       BuildStart(files, NoRanking) /\ UNCHANGED semFrame
  \/ \E call \in semBuilds, indexFails \in BOOLEAN :
       BuildResume(call, indexFails) /\ UNCHANGED semFrame
  \/ InvalidateCache /\ UNCHANGED semFrame

SpecSem == InitSem /\ [][NextSem]_vars

\* The manager's retrieval over a fresh index without an API key: every
\* buildSemanticIndex call is the one getRelevantContext makes, and every
\* indexFile call completes.
Ranking(query, maxResults) == [query |-> query, maxResults |-> maxResults]

NextRank ==
  \/ SemTick /\ UNCHANGED semFrame
  \/ \E q \in QueryTexts, k \in Limits :
       GetRelevantContextReuse(q, k) /\ UNCHANGED semFrame
  \/ \E q \in QueryTexts, k \in Limits, files \in ProjectFiles :
       ~Reusable(q) /\ BuildCached(files, Ranking(q, k)) /\ UNCHANGED semFrame
  \/ \E q \in QueryTexts, k \in Limits, files \in ProjectFiles :
       ~Reusable(q) /\ BuildEmpty(files, Ranking(q, k)) /\ UNCHANGED semFrame
  \/ \E q \in QueryTexts, k \in Limits, files \in ProjectFiles :
       ~Reusable(q) /\ BuildStart(files, Ranking(q, k)) /\ UNCHANGED semFrame
  \/ \E call \in semBuilds :
       BuildResume(call, FALSE) /\ UNCHANGED semFrame
  \/ InvalidateCache /\ UNCHANGED semFrame

SpecRank == InitSem /\ [][NextRank]_vars

\* The retriever over an index of up to MaxOptChunks chunks of one file.
InitOpt ==
  /\ \E n \in 0..MaxOptChunks : Indexed(OptChunks(n), 1)
  /\ InitCacheState /\ InitSemState /\ InitOptState /\ InitPureState /\ InitScanState
  /\ InitGenState

NextOpt ==
  \/ \E f \in Files, p \in CursorPositions, q \in QueryTexts, m \in MaxTokensValues :
       GetRelevantContext(f, p, q, m) /\ UNCHANGED optFrame
  \/ \E t \in Tasks, f \in Files, p \in CursorPositions, q \in QueryTexts :
       GetFocusedContext(t, f, p, q) /\ UNCHANGED optFrame

SpecOpt == InitOpt /\ [][NextOpt]_vars

\* The pure functions on every argument of PureInputs.
InitPure ==
  /\ InitIndexState /\ InitCacheState /\ InitSemState /\ InitOptState /\ InitScanState
  /\ InitGenState
  /\ pureIn \in PureInputs
  /\ pureOut = NoPure

NextPure ==
  \/ ApplyChunkTexFile /\ UNCHANGED pureFrame
  \/ ApplyChunkFile /\ UNCHANGED pureFrame
  \/ ApplyLexicalCosine /\ UNCHANGED pureFrame
  \/ ApplyCosine /\ UNCHANGED pureFrame
  \/ ApplyOptimizeContext /\ UNCHANGED pureFrame
  \/ ApplyCreateProjectSummary /\ UNCHANGED pureFrame

SpecPure == InitPure /\ [][NextPure]_vars

\* The project scanner on a page that changes between the calls.
NextScan ==
  \/ ScanTick /\ UNCHANGED scanFrame
  \/ ScanCached /\ UNCHANGED scanFrame
  \/ \E page \in Pages, text \in DocumentTexts :
       ScanStart(page, text) /\ UNCHANGED scanFrame
  \/ \E scan \in scans, readFails \in BOOLEAN, text \in DocumentTexts :
       ScanResume(scan, readFails, text) /\ UNCHANGED scanFrame
  \/ InvalidateProjectCache /\ UNCHANGED scanFrame

SpecScan == InitIndex /\ [][NextScan]_vars

\* The generation operations against a backend that answers, refuses,
\* cannot be reached or is cancelled.
NextGen ==
  \/ \E fn \in GenFns, keyed \in BOOLEAN, before \in QueryTexts, template \in Templates,
        page \in GenPages, text \in DocumentTexts :
       GenStart(fn, keyed, before, template, page, text) /\ UNCHANGED genFrame
  \/ \E scan \in scans, readFails \in BOOLEAN, text \in DocumentTexts :
       GenScanResume(scan, readFails, text) /\ UNCHANGED genFrame
  \/ \E e \in EmbeddingValues :
       GenContextResume(TRUE, e) /\ UNCHANGED genFrame
  \/ GenContextResume(FALSE, NoEmbedding) /\ UNCHANGED genFrame
  \/ \E event \in RequestEvents :
       GenRespond(event) /\ UNCHANGED genFrame
  \/ \E event \in ReadEvents, token \in Tokens :
       GenRead(event, token) /\ UNCHANGED genFrame
  \/ GenTick /\ UNCHANGED genFrame

SpecGen == InitIndex /\ [][NextGen]_vars

\* C7: a findRelevantContext call that reads the index while indexFile(F) is
\* suspended at an embedding request sees, for F, all chunks of the previous
\* indexing of F or all chunks of the new one.
C7_ReaderSeesOldOrNew ==
  lastFind.mode # "none" =>
    \A a \in lastFind.active : lastFind.seen[a.file] \in {a.old, a.new}

\* C11: when two indexFile calls of file F overlapped and both have completed,
\* the index holds for F no chunk but those of the call that completed last,
\* and chunkIndex, embeddings and fileChunks agree: every chunk held for F has
\* its embedding and is listed in fileChunks[F].
C11_LastCompletedWins ==
  \A f \in Files :
    (lastDone[f].done /\ lastDone[f].overlap /\ ~\E c \in indexCalls : c.file = f)
      => /\ CoresOfFile(chunkIndex, f) \subseteq lastDone[f].cores
         /\ {e.id : e \in {d \in Range(embeddings) : d.id[1] = f}}
              = {c.id : c \in CoresOfFile(chunkIndex, f)}
         /\ {c.id : c \in CoresOfFile(chunkIndex, f)} \subseteq Range(fileChunks[f])

\* C12: findRelevantContext never rejects; a call made without an API key, and
\* a call whose embedding request failed, returns the lexical word-overlap
\* ranking of the indexed chunks.
C12_FallbackInsteadOfError ==
  lastFind.mode # "none" =>
    /\ lastFind.mode # "rejected"
    /\ (~lastFind.keyed \/ ~lastFind.ok) =>
         /\ lastFind.mode = "fallback"
         /\ lastFind.result =
              findRelevantContextFallback(chunkIndex, lastFind.query, lastFind.limit)

C12_Witness ==
  /\ lastFind.mode = "fallback"
  /\ lastFind.keyed
  /\ ~lastFind.ok
  /\ lastFind.result # <<>>

\* C13: a chunk of a file passed to indexFile whose embedding request failed
\* is a candidate of the lexical ranking: a fallback findRelevantContext made
\* when no indexFile of the file is in flight reads it in chunkIndex.
C13_FailedChunkStillRanked ==
  lastFind.mode = "fallback" =>
    \A f \in Files :
      (lastDone[f].done /\ ~\E a \in lastFind.active : a.file = f)
        => lastDone[f].failed \subseteq lastFind.seen[f]

\* C14: every chunk findRelevantContext returns, in dense and in lexical
\* mode, has a similarity score strictly above the threshold 0.1.
C14_ReturnedAboveThreshold ==
  /\ lastFind.mode = "dense" =>
       \A i \in 1..Len(lastFind.result) :
         AboveThreshold(cosineSimilarity(lastFind.queryEmbedding, lastFind.result[i].embedding))
  /\ lastFind.mode = "fallback" =>
       \A i \in 1..Len(lastFind.result) :
         AboveThreshold(lexicalScore(lastFind.query, lastFind.result[i]))

\* C15: on an unchanged index (the snapshot the remembered results were ranked
\* on is still the published one), getRelevantContext(q, k) returns the
\* min(k, n) highest-scoring chunks in descending score order, n being the
\* number of chunks scoring above the threshold for q.
C15_TopKWhateverEarlierK ==
  (lastSem.op = "ranked" /\ rankedOn # 0 /\ rankedOn = semanticIndexCache)
    => lastSem.results =
         rankChunks(snapshots[rankedOn].chunks, lastSem.query, lastSem.maxResults)

ZeroNorm(vec) == \A i \in 1..Len(vec) : vec[i] = 0

\* C16: cosineSimilarity returns exactly 0 when either argument has zero norm
\* (all components zero, or no component), in the lexical implementation of
\* the SemanticContextManager and in the dense one of the CursorSemanticIndex.
C16_ZeroNormGivesZero ==
  (/\ pureOut.fn \in {"lexicalCosineSimilarity", "cosineSimilarity"}
   /\ ZeroNorm(pureIn.vec1) \/ ZeroNorm(pureIn.vec2))
    => pureOut.result = ScoreZero

\* C17: every chunk chunkTexFile and chunkFile return carries the input file
\* name and 0 <= startLine <= endLine <= number of lines of the content - 1.
C17_ChunkLinesInRange ==
  pureOut.fn \in {"chunkTexFile", "chunkFile"} =>
    \A i \in 1..Len(pureOut.result) :
      LET chunk == pureOut.result[i]
      IN  /\ chunk.file = pureIn.filePath
          /\ 0 <= chunk.startLine
          /\ chunk.startLine <= chunk.endLine
          /\ chunk.endLine <= Len(pureIn.content) - 1

HasWord(content, word) == \E i \in 1..Len(content) : word \in Range(content[i])

\* C18: for a content with a \begin{equation} and no \end{equation},
\* chunkTexFile and chunkFile return no chunk for the equation environment.
C18_UnclosedEnvironmentNoChunk ==
  (/\ pureOut.fn \in {"chunkTexFile", "chunkFile"}
   /\ HasWord(pureIn.content, "\\begin{equation}")
   /\ ~HasWord(pureIn.content, "\\end{equation}"))
    => \A i \in 1..Len(pureOut.result) : pureOut.result[i].type # "equation"

\* A content whose first line is its only heading and that has no environment.
HeadingFirst(content) ==
  /\ content[1] = <<"\\section{S}">>
  /\ \A i \in 2..Len(content) : "\\section{S}" \notin Range(content[i])
  /\ ~HasWord(content, "\\begin{equation}")
  /\ ~HasWord(content, "\\end{equation}")

\* C19: for a content whose first line is its only heading command and that
\* has no environment, chunkTexFile returns exactly one chunk: of type
\* section, titled with the heading's argument, from line 0 to the last line.
C19_SingleHeadingOneSection ==
  (pureOut.fn = "chunkTexFile" /\ HeadingFirst(pureIn.content))
    => /\ Len(pureOut.result) = 1
       /\ pureOut.result[1].type = "section"
       /\ pureOut.result[1].metadata.title = "S"
       /\ pureOut.result[1].startLine = 0
       /\ pureOut.result[1].endLine = Len(pureIn.content) - 1
       /\ pureOut.result[1].content = pureIn.content

C19_Witness ==
  /\ pureOut.fn = "chunkTexFile"
  /\ HeadingFirst(pureIn.content)
  /\ Len(pureIn.content) = MaxLines
  /\ pureOut.result[1].endLine = MaxLines - 1

\* C20: in every ProjectContext scanProjectFiles returns, mainDocument, when
\* defined, is the very object that is one element of allTexFiles, and it is
\* defined whenever allTexFiles is not empty.
C20_MainDocumentIsAMember ==
  lastScan.op = "returned" =>
    LET context == lastScan.context
    IN  /\ context.mainDocument # 0 =>
             \E i \in 1..Len(context.allTexFiles) :
               context.allTexFiles[i] = context.mainDocument
        /\ context.allTexFiles # <<>> => context.mainDocument # 0

C20_Witness ==
  /\ lastScan.op = "returned"
  /\ Len(lastScan.context.allTexFiles) >= 2
  /\ lastScan.context.mainDocument = lastScan.context.allTexFiles[2]
  /\ \E i \in 1..Len(fileObjects) :
       /\ i # lastScan.context.mainDocument
       /\ fileObjects[i] = fileObjects[lastScan.context.mainDocument]

MainNames == {"main.tex", "document.tex", "thesis.tex", "paper.tex"}

\* C21: the main document of a returned ProjectContext is the first file of
\* allTexFiles (file-tree order) that has one of the main names, and the
\* first file when none has.
C21_FirstMainNamedFile ==
  lastScan.op = "returned" /\ lastScan.context.allTexFiles # <<>> =>
    LET files == lastScan.context.allTexFiles
        named == {i \in 1..Len(files) : fileObjects[files[i]].name \in MainNames}
        first == IF named = {} THEN 1 ELSE CHOOSE i \in named : \A j \in named : i <= j
    IN  lastScan.context.mainDocument = files[first]

\* C22: scanProjectFiles never rejects.  Every call that ends hands a
\* ProjectContext to its caller, also when reading the DOM threw or a file
\* could not be read; its files are ProjectFile objects and its main document
\* is one of them; when the DOM could not be reached it has no file and no
\* main document.
C22_ScanNeverRejects ==
  lastScan.op # "none" =>
    /\ lastScan.op = "returned"
    /\ LET context == lastScan.context
       IN  /\ \A i \in 1..Len(context.allTexFiles) :
                context.allTexFiles[i] \in 1..Len(fileObjects)
           /\ context.mainDocument # 0 => context.mainDocument \in Range(context.allTexFiles)
           /\ lastScan.threw => context.allTexFiles = <<>> /\ context.mainDocument = 0

\* A scan whose DOM access threw, after an earlier scan had read files.
C22_Witness ==
  /\ lastScan.op = "returned"
  /\ lastScan.threw
  /\ fileObjects # <<>>

C24_AbortEndsSilently ==
  gen.phase # "idle" /\ gen.cause = "abort" =>
    /\ gen.phase = "ended"
    /\ Len(delivered) = gen.deliveredBefore

IsError(item) ==
  /\ item.kind \in {"error", "return"}
  /\ \/ \E fn \in GenFns : item.content = CapacityMessage(fn)
     \/ \E event \in {"notOk", "network"} : item.content = GenericMessage(ErrorText(event))

\* C25: when a backend call of a generation operation fails without
\* cancellation, by a non-success response or by a network error, the last
\* thing the caller receives is an error (an error chunk or an error string),
\* and on either path the message for a non-success response is not the
\* message for a network error.
C25_FailureIsReported ==
  /\ gen.phase # "idle" /\ gen.cause \in {"notOk", "network"} =>
       /\ gen.phase = "ended"
       /\ Len(delivered) = gen.deliveredBefore + 1
       /\ IsError(delivered[Len(delivered)])
  /\ \A fn \in GenFns, keyed \in BOOLEAN :
       afterRequest(fn, keyed, "notOk").out # afterRequest(fn, keyed, "network").out

\* C26: when the fileChanged handler for file F has finished, the table holds
\* no entry whose Context has a chunk of F, and the entries it held before
\* without such a chunk are all there, unchanged and in their order.
C26_RelatedEntriesRemoved ==
  lastOp.op = "handled" =>
    /\ \A i \in 1..Len(cache) : ~HasChunkOf(cache[i].context, lastOp.filePath)
    /\ cache = SelectSeq(lastOp.before,
                         LAMBDA e : ~HasChunkOf(e.context, lastOp.filePath))

\* The handler removed an entry whose Context also has a chunk of another file.
C26_Witness ==
  /\ lastOp.op = "handled"
  /\ \E i \in 1..Len(lastOp.before) :
       /\ HasChunkOf(lastOp.before[i].context, lastOp.filePath)
       /\ \E f \in Files \ {lastOp.filePath} : HasChunkOf(lastOp.before[i].context, f)
       /\ ~MapHas(cache, lastOp.before[i].id)

\* C27: when the fileChanged handler for file F has finished, the remembered
\* fast-path result, if still set, has no chunk of F and was not produced by a
\* query whose filePath is F.
C27_FastPathClearedForFile ==
  lastOp.op = "handled" /\ lastContextResult # NoContext =>
    /\ ~HasChunkOf(lastContextResult, lastOp.filePath)
    /\ lastContextQuery.filePath # lastOp.filePath

\* C28: the Context a getContext call returns is, at the time of the return,
\* not older than cacheTimeout.
C28_ReturnedContextNotStale ==
  [][(clock' = clock /\ lastOp'.op = "return") =>
       clock' - lastOp'.ctx.timestamp <= cacheTimeout]_vars

\* C29: a getContext call served without a rebuild (by the fast path or by a
\* table hit) adds one to the accessCount of the table entry that holds the
\* returned Context and sets its lastAccess to the current time.
C29_HitUpdatesBookkeeping ==
  [][(clock' = clock /\ lastOp'.op = "return" /\ lastOp'.path \in {"fast", "hit"}) =>
       \A i \in 1..Len(cache) :
         cache[i].context.id = lastOp'.ctx.id =>
           /\ MapHas(cache', cache[i].id)
           /\ MapGet(cache', cache[i].id).accessCount = cache[i].accessCount + 1
           /\ MapGet(cache', cache[i].id).lastAccess = clock]_vars

\* A chunk of a file whose change was reported that is not a chunk of the
\* reported text: it was cut from the text before the change.
PreChange(chunk) ==
  /\ lastContent[chunk.file] # EmptyString
  /\ \A c \in Range(chunkFile(lastContent[chunk.file], chunk.file)) :
       c.content # chunk.content

\* C30: once updateContextForFileChange(F, newContent) was called with a
\* changed content, no findRelevantContext call and no Context rebuilt by
\* getContext returns a chunk of F that was cut from the text of F before
\* the change.
C30_NoPreChangeChunk ==
  [][lastContent' = lastContent =>
       /\ (lastFind' # lastFind /\ lastFind'.mode # "none") =>
            \A i \in 1..Len(lastFind'.result) : ~PreChange(lastFind'.result[i])
       /\ (lastOp' # lastOp /\ lastOp'.op = "return" /\ lastOp'.path = "built") =>
            \A i \in 1..Len(lastOp'.ctx.relevantChunks) :
              ~PreChange(lastOp'.ctx.relevantChunks[i])]_vars

\* C1: after a change of file F is reported, no getContext call returns a
\* Context that was built before the report and holds a chunk of F.
C1_NoStaleContextAfterReport ==
  lastOp.op = "return" =>
    lastOp.ctx.id \notin outdated

Built == lastOp.op = "return" /\ lastOp.path = "built"

\* C2: the entries cleanupCache removes have the lowest accessCount, ties
\* broken by the oldest lastAccess: no surviving entry has a lower accessCount
\* than a removed one, nor an equal accessCount and an older lastAccess.
C2_EvictsLeastUsed ==
  Built =>
    \A i \in 1..Len(lastOp.evicted), j \in 1..Len(cache) :
      /\ ~(cache[j].accessCount < lastOp.evicted[i].accessCount)
      /\ ~(/\ cache[j].accessCount = lastOp.evicted[i].accessCount
           /\ cache[j].lastAccess < lastOp.evicted[i].lastAccess)

\* C3: cleanupCache removes exactly max(0, size - maxCacheSize) entries: when
\* getContext returns the table holds at most maxCacheSize entries, and a new
\* key inserted into a full table evicts exactly one entry.
C3_CleanupRestoresCapacity ==
  /\ lastOp.op = "return" => Len(cache) <= maxCacheSize
  /\ Built =>
       /\ Len(lastOp.evicted) =
            Max(0, Len(cache) + Len(lastOp.evicted) - maxCacheSize)
       /\ (lastOp.newKey /\ Len(cache) + Len(lastOp.evicted) - 1 = maxCacheSize)
            => Len(lastOp.evicted) = 1

C3_Witness ==
  Built /\ lastOp.newKey /\ Len(lastOp.evicted) = 1 /\ Len(cache) = maxCacheSize

GetContext(q) == GetContextFast(q) \/ GetContextHit(q) \/ GetContextMiss(q)

\* C4: when getContext(q) has returned and the next operation on the cache is
\* getContext with an identical query, the call returns the same Context and
\* buildContext is not invoked.
C4_RepeatedQueryNotRebuilt ==
  [][\A q \in Queries :
       (lastOp.op = "return" /\ lastOp.query = q /\ GetContext(q))
         => (/\ lastOp'.op = "return"
             /\ lastOp'.ctx = lastOp.ctx
             /\ buildCount' = buildCount)]_vars

C4_Witness ==
  lastOp.op = "return" /\ lastOp.repeat /\ lastOp.path = "fast" /\ clock > lastOp.ctx.timestamp

\* The chunks of a project before the vector loop, without their time stamp.
RECURSIVE ProjectChunks(_)
ProjectChunks(files) ==
  IF files = <<>> THEN <<>>
  ELSE chunkTexFile(files[1].content, files[1].name, 0) \o ProjectChunks(Tail(files))

Unstamped(chunks) ==
  [i \in 1..Len(chunks) |-> [chunks[i] EXCEPT !.vector = <<>>, !.lastModified = 0]]

\* A snapshot with every chunk of some project, every vector built over the
\* words of all its chunks, and every chunk stamped with the snapshot's time.
Complete(snapshot) ==
  /\ \E files \in ProjectFiles : Unstamped(snapshot.chunks) = ProjectChunks(files)
  /\ \A i \in 1..Len(snapshot.chunks) :
       /\ Len(snapshot.chunks[i].vector) =
            Len(calculateWordFrequency(splitAllText(snapshot.chunks), <<>>))
       /\ snapshot.chunks[i].lastModified = snapshot.lastUpdate

\* C8: a snapshot object, once created and published, keeps its chunk list,
\* its vectors and its lastUpdate in every later step; whenever
\* semanticIndexCache is pointed at a snapshot, that snapshot is a new
\* object and is complete at that moment.
C8_PublishedSnapshotNeverModified ==
  [][/\ Len(snapshots') >= Len(snapshots)
     /\ \A i \in 1..Len(snapshots) : snapshots'[i] = snapshots[i]
     /\ (semanticIndexCache' # semanticIndexCache /\ semanticIndexCache' # 0)
          => /\ semanticIndexCache' > Len(snapshots)
             /\ Complete(snapshots'[semanticIndexCache'])]_vars

C8_Witness ==
  /\ lastSem.op = "published"
  /\ Len(snapshots) >= 2
  /\ semanticIndexCache = Len(snapshots)
  /\ Len(snapshots[semanticIndexCache].chunks) >= 2
  /\ snapshots[1] # snapshots[semanticIndexCache]

\* C9: the first buildSemanticIndex call made after invalidateCache does not
\* take the cached path: it rebuilds.
C9_RebuildAfterInvalidate ==
  (lastSem.op = "build" /\ lastSem.afterInvalidate) => lastSem.path # "cached"

Build(files) ==
  BuildCached(files, NoRanking) \/ BuildEmpty(files, NoRanking) \/ BuildStart(files, NoRanking)

\* C10: a buildSemanticIndex call made while a snapshot is published and less
\* than INDEX_CACHE_DURATION has passed since its lastUpdate returns that
\* snapshot object, starts no rebuild (no chunking), leaves the semantic
\* index untouched (no indexFile) and creates no snapshot.
C10_FreshSnapshotReturned ==
  [][\A files \in ProjectFiles :
       (/\ semanticIndexCache # 0
        /\ clock - snapshots[semanticIndexCache].lastUpdate < INDEX_CACHE_DURATION
        /\ Build(files))
         => (/\ lastSem'.op = "build"
             /\ lastSem'.snapshot = semanticIndexCache
             /\ UNCHANGED <<semanticIndexCache, snapshots, semBuilds, rebuilds,
                            incrementalIndex, indexVars>>)]_vars

C10_Witness ==
  /\ lastSem.op = "build"
  /\ lastSem.path = "cached"
  /\ ~lastSem.afterInvalidate
  /\ lastSem.snapshot = semanticIndexCache
  /\ clock > snapshots[semanticIndexCache].lastUpdate

\* What is left of a bundle when everything but the immediate section is
\* trimmed away.
ImmediateOnly(context) ==
  [context EXCEPT !.semantic = getSemanticContext(<<>>),
                  !.structural.outline.sections = <<>>,
                  !.recent = getRecentlyEditedContext]

\* C5: when the composed bundle's estimate exceeds maxTokens, the bundle
\* optimizeContext returns has an estimate of at most maxTokens, or the
\* estimate of the bundle reduced to its immediate section.
C5_FittedToBudget ==
  (lastRetrieval.op = "getRelevantContext"
     /\ estimateTokens(lastRetrieval.composed) > lastRetrieval.maxTokens)
    => \/ estimateTokens(lastRetrieval.returned) <= lastRetrieval.maxTokens
       \/ estimateTokens(lastRetrieval.returned) =
            estimateTokens(ImmediateOnly(lastRetrieval.composed))

\* C6: the bundle returned by getRelevantContext (optimizeContext) and by
\* getFocusedContext carries the immediate section exactly as composed.
C6_ImmediateNeverModified ==
  lastRetrieval.op # "none" =>
    lastRetrieval.returned.immediate = lastRetrieval.composed.immediate

C6_Witness ==
  /\ lastRetrieval.op = "getRelevantContext"
  /\ estimateTokens(lastRetrieval.composed) > lastRetrieval.maxTokens
  /\ Len(lastRetrieval.returned.semantic.relevantChunks) <
       Len(lastRetrieval.composed.semantic.relevantChunks)
  /\ lastRetrieval.composed.immediate.cursorPosition # 0

\* The lines of a content that hold a heading command with a braced title.
HeadingLines(content) ==
  {i \in 1..Len(content) : \E k \in 1..Len(content[i]) : content[i][k] \in SectionWords}

\* C31: extractSections returns as many sections as the content has lines
\* with a heading command, also when heading lines follow each other
\* directly: chunkTexFile has one section chunk per heading line.
C31_OneSectionPerHeadingLine ==
  pureOut.fn = "chunkTexFile" =>
    Cardinality({i \in 1..Len(pureOut.result) :
                   pureOut.result[i].type \in {"section", "subsection", "subsubsection"}})
      = Cardinality(HeadingLines(pureIn.content))

C33_EmitsIffContentDiffers ==
  [][\A f \in Files, newContent \in WatchedTexts :
       TriggerFileChange(f, newContent) =>
         IF newContent # lastContent[f]
         THEN /\ lastContent' = [lastContent EXCEPT ![f] = newContent]
              /\ handlers' = [handlers EXCEPT ![f] = @ + 1]
         ELSE UNCHANGED <<lastContent, handlers, cache, lastContextQuery,
                          lastContextResult, calls>>]_vars

\* A reported content that differed in one line only was recorded and its
\* handler started; the other file's content was reported and then withdrawn.
C33_Witness ==
  \E f, g \in Files :
    /\ f # g
    /\ lastContent[f] = << <<"a">> >>
    /\ handlers[f] = 1
    /\ lastContent[g] = EmptyString
    /\ handlers[g] = 1

\* C34: the character total createProjectSummary accumulates and reports as
\* context used never exceeds MAX_TOTAL_PROJECT_CONTEXT.
C34_ContextUsedWithinLimit ==
  pureOut.fn = "createProjectSummary" =>
    pureOut.result.totalContextLength <= MAX_TOTAL_PROJECT_CONTEXT

\* C35: when a getContext call that was waiting for buildContext while a
\* change of file F was reported resumes after the handler of that change
\* has run, the Context it built, if it holds a chunk of F, is left neither
\* in the table nor as the remembered last result.
C35_OvertakenCallLeavesNoStaleContext ==
  [][\A call \in calls :
       (calls' = calls \ {call} /\ lastOp'.op = "return" /\ lastOp'.path = "built") =>
         \A o \in overtaken :
           (o.cid = call.cid /\ o.handled /\ HasChunkOf(lastOp'.ctx, o.filePath)) =>
             /\ lastContextResult' # lastOp'.ctx
             /\ \A i \in 1..Len(cache') : cache'[i].context # lastOp'.ctx]_vars

\* C36: right after invalidateProjectCache() a scan that was in flight at the
\* invalidation does not repopulate the cache: getCachedProjectContext does
\* not answer the ProjectContext of such a scan.
C36_InFlightScanDoesNotRepopulate ==
  []["inFlight" \in DOMAIN lastScan =>
       ~(/\ projectContextCache' # NoProjectContext
         /\ clock' - lastCacheTime' < CACHE_DURATION
         /\ projectContextCache'.id \in lastScan.inFlight)]_vars

\* C37: the chunk ids of one chunkTexFile result are pairwise distinct, and
\* setChunks on that result retains every chunk: getChunks() answers as many
\* chunks as were passed in.
C37_ChunkIdsDistinct ==
  pureOut.fn = "chunkTexFile" =>
    /\ \A i, j \in 1..Len(pureOut.result) :
         i # j => pureOut.result[i].id # pureOut.result[j].id
    /\ Len(setChunks(EmptyIncrementalIndex, pureOut.result).chunks) = Len(pureOut.result)

\* C38: getSuggestion reuses the cached prompt only when the text before the
\* cursor, the project snapshot and the prompt template of the call are
\* those the cached prompt was built for.
C38_ReuseOnlyWhenAllIdentical ==
  (gen.phase # "idle" /\ gen.fn = "getSuggestion" /\ gen.reused) =>
    /\ gen.prompt.before = gen.before
    /\ lastPromptCache.projectContext = gen.projectContext
    /\ gen.prompt.template = gen.template

\* C39: the entry a getContext call has just inserted is not among the
\* entries that call's cleanupCache evicts: the Context it returns is in the
\* table when the call returns.
C39_NewEntrySurvivesCleanup ==
  Built =>
    /\ \A i \in 1..Len(lastOp.evicted) : lastOp.evicted[i].context # lastOp.ctx
    /\ \E i \in 1..Len(cache) : cache[i].context = lastOp.ctx

\* A call has inserted a new key into a full table and its cleanupCache has
\* evicted an entry that was read as often and at the same time as the new one.
C39_Witness ==
  /\ Built /\ lastOp.newKey
  /\ \E i \in 1..Len(lastOp.evicted) :
       /\ lastOp.evicted[i].accessCount = 1
       /\ lastOp.evicted[i].lastAccess = clock
  /\ \E i \in 1..Len(cache) :
       cache[i].context = lastOp.ctx /\ cache[i].accessCount = 1 /\ cache[i].lastAccess = clock

====
